---- MODULE Spec2Model ----
(***************************************************************************)
(* molgif: ray-traced GIF/PNG animations of molecules.                     *)
(*                                                                         *)
(* The model follows the most complete variant of the program (the first   *)
(* revision in src/unnamed/part_000, lines 1-839): the flag checks of      *)
(* main, Molecule loading and bonding, the geometry builder, the ray       *)
(* tracer, the tile-parallel Render with its worker goroutines and         *)
(* channels, and the RenderAll frame loop.                                 *)
(*                                                                         *)
(* Numbers.  The program computes in float32, and so does the model: a     *)
(* float32 value is the record [m, e] standing for m * 2^e with a 24-bit   *)
(* significand m, and FAdd, FMul, FDiv and FSqrt round to nearest, ties to *)
(* even, once per operation, as the Go compiler does on amd64 (no fused    *)
(* multiply-add).  Infinities and NaN are values; signed zeros and         *)
(* subnormal numbers are not kept apart (no input comes near them).        *)
(* math.Sincos is the table Sincos of the angles RenderAll asks for.       *)
(*                                                                         *)
(* Images.  Every rectangle the program builds is either the frame         *)
(* [0,W)x[0,H) or a tileSize x tileSize square on the tile grid, so the    *)
(* pixel store of an image is kept per grid square: Pix[<<i,j>>] describes *)
(* all pixels of the image that lie in grid square (i,j).  It is <<>> for  *)
(* pixels still holding NewRGBA's zero value and <<shapes>> for pixels     *)
(* set to the colour ComputePixel returns for (x, y) on that shape list;   *)
(* that colour is written Pixel(shapes, x, y) and computed by ComputePixel *)
(* only where a property looks at it.                                      *)
(***************************************************************************)
EXTENDS Integers, Sequences, FiniteSets, TLC

\* ---------------------------------------------------------------- bounds
MaxTiles == 4
MaxNP == 2
MaxLoopTime == 1
MaxAtoms == 3

\* ------------------------------------------------------- program constants
tileSize == 64
FPS == 50

\* ------------------------------------------------------------- rectangles
\* image.Point / image.Rectangle
Rect(x0, y0, x1, y1) == [Min |-> [X |-> x0, Y |-> y0], Max |-> [X |-> x1, Y |-> y1]]

ZR == Rect(0, 0, 0, 0)

Dx(r) == r.Max.X - r.Min.X

Dy(r) == r.Max.Y - r.Min.Y

Empty(r) == r.Min.X >= r.Max.X \/ r.Min.Y >= r.Max.Y

PtIn(x, y, r) == r.Min.X <= x /\ x < r.Max.X /\ r.Min.Y <= y /\ y < r.Max.Y

MaxOf(a, b) == IF a > b THEN a ELSE b

MinOf(a, b) == IF a < b THEN a ELSE b

\* Rectangle.Intersect: the largest rectangle contained in both, ZR if none
Intersect(r, s) ==
    LET c == Rect(MaxOf(r.Min.X, s.Min.X), MaxOf(r.Min.Y, s.Min.Y),
                  MinOf(r.Max.X, s.Max.X), MinOf(r.Max.Y, s.Max.Y))
    IN IF Empty(c) THEN ZR ELSE c

\* the grid squares a rectangle has pixels in
Squares(r) ==
    IF Empty(r) THEN {}
    ELSE { <<i, j>> : i \in (r.Min.X \div tileSize) .. ((r.Max.X - 1) \div tileSize),
                      j \in (r.Min.Y \div tileSize) .. ((r.Max.Y - 1) \div tileSize) }

\* ------------------------------------------------------------------ images
\* image.NewRGBA(r): every pixel of r is the zero colour
NewRGBA(r) == [Rect |-> r, Pix |-> [k \in Squares(r) |-> <<>>], banner |-> FALSE]

NoImage == [Rect |-> ZR, Pix |-> <<>>, banner |-> FALSE]

\* the pixel NewRGBA leaves, color.RGBA{}
ZeroColor == [zero |-> TRUE, shapes |-> <<>>, x |-> 0, y |-> 0]

\* color.RGBA{r, g, b, a}
RGBA(r, g, b, a) == [R |-> r, G |-> g, B |-> b, A |-> a]

\* ------------------------------------------------------------- float32
\* A float32 value is kept as [m, e], standing for m * 2^e with
\* 2^23 <= |m| < 2^24, or as FZero, FInf(neg) or NaN.  TLC's integers have
\* 32 bits, so products and quotients of significands are built in parts.
FZero == [m |-> 0, e |-> 0]

NaN == [m |-> 0, e |-> 999]

FInf(neg) == [m |-> IF neg THEN -1 ELSE 1, e |-> 999]

IsNaN(a) == a.e = 999 /\ a.m = 0

IsInf(a) == a.e = 999 /\ a.m # 0

IsNeg(a) == a.m < 0

\* math.MaxFloat32
MaxFloat32 == [m |-> 16777215, e |-> 104]

Abs(n) == IF n < 0 THEN -n ELSE n

WithSign(neg, a) == IF neg THEN [a EXCEPT !.m = -@] ELSE a

FNeg(a) == [a EXCEPT !.m = -@]

RECURSIVE BitLen(_)
BitLen(n) == IF n = 0 THEN 0 ELSE 1 + BitLen(n \div 2)

\* round-to-nearest-even of the magnitude (M + f) * 2^e to 24 bits, where
\* 0 < f < 1 if sticky and f = 0 otherwise
RoundPack(M, e, sticky) ==
    IF M = 0 THEN FZero
    ELSE LET n == BitLen(M)
         IN IF n <= 24 THEN [m |-> M * 2^(24 - n), e |-> e - (24 - n)]
            ELSE LET k == n - 24
                     q == M \div 2^k
                     r == M % 2^k
                     half == 2^(k - 1)
                     up == r > half \/ (r = half /\ (sticky \/ q % 2 = 1))
                     q1 == IF up THEN q + 1 ELSE q
                     res == IF q1 = 16777216 THEN [m |-> 8388608, e |-> e + k + 1]
                            ELSE [m |-> q1, e |-> e + k]
                 IN IF res.e > 104 THEN FInf(FALSE) ELSE res

\* a + b
FAdd(a, b) ==
    IF IsNaN(a) \/ IsNaN(b) THEN NaN
    ELSE IF IsInf(a) THEN (IF IsInf(b) /\ a.m # b.m THEN NaN ELSE a)
    ELSE IF IsInf(b) THEN b
    ELSE IF a.m = 0 THEN b
    ELSE IF b.m = 0 THEN a
    ELSE LET hi == IF a.e >= b.e THEN a ELSE b
             lo == IF a.e >= b.e THEN b ELSE a
             k == (hi.e - lo.e) - 6
             kk == IF k > 25 THEN 25 ELSE k
             A == hi.m * 64
             B == IF k <= 0 THEN lo.m * 2^(-k) ELSE lo.m \div 2^kk
             st == k > 0 /\ lo.m % 2^kk # 0
             S == A + B
         IN IF S >= 0 THEN RoundPack(S, hi.e - 6, st)
            ELSE IF st THEN WithSign(TRUE, RoundPack(-S - 1, hi.e - 6, TRUE))
            ELSE WithSign(TRUE, RoundPack(-S, hi.e - 6, FALSE))

FSub(a, b) == FAdd(a, FNeg(b))

\* a * b
FMul(a, b) ==
    IF IsNaN(a) \/ IsNaN(b) THEN NaN
    ELSE IF IsInf(a) \/ IsInf(b)
        THEN (IF a.m = 0 \/ b.m = 0 THEN NaN ELSE FInf(IsNeg(a) # IsNeg(b)))
    ELSE IF a.m = 0 \/ b.m = 0 THEN FZero
    ELSE LET ma == Abs(a.m)
             mb == Abs(b.m)
             a1 == ma \div 4096
             a0 == ma % 4096
             b1 == mb \div 4096
             b0 == mb % 4096
             mid == a1 * b0 + a0 * b1
             low == (mid % 4096) * 4096 + a0 * b0
             hi == a1 * b1 + (mid \div 4096) + (low \div 16777216)
             lo == low % 16777216
         IN WithSign(IsNeg(a) # IsNeg(b),
                     RoundPack(hi * 64 + (lo \div 262144), a.e + b.e + 18,
                               lo % 262144 # 0))

\* a / b
FDiv(a, b) ==
    IF IsNaN(a) \/ IsNaN(b) THEN NaN
    ELSE IF IsInf(a) THEN (IF IsInf(b) THEN NaN ELSE FInf(IsNeg(a) # IsNeg(b)))
    ELSE IF IsInf(b) THEN FZero
    ELSE IF b.m = 0 THEN (IF a.m = 0 THEN NaN ELSE FInf(IsNeg(a)))
    ELSE IF a.m = 0 THEN FZero
    ELSE LET ma == Abs(a.m)
             mb == Abs(b.m)
             q0 == ma \div mb
             r0 == ma % mb
             q1 == (r0 * 64) \div mb
             r1 == (r0 * 64) % mb
             q2 == (r1 * 64) \div mb
             r2 == (r1 * 64) % mb
             q3 == (r2 * 64) \div mb
             r3 == (r2 * 64) % mb
             q4 == (r3 * 64) \div mb
             r4 == (r3 * 64) % mb
             q5 == (r4 * 8) \div mb
             r5 == (r4 * 8) % mb
             q == ((((q0 * 64 + q1) * 64 + q2) * 64 + q3) * 64 + q4) * 8 + q5
         IN WithSign(IsNeg(a) # IsNeg(b), RoundPack(q, a.e - b.e - 27, r5 # 0))

RECURSIVE SqrtIter(_, _, _, _)
SqrtIter(mp, i, root, rem) ==
    IF i = 27 THEN << root, rem >>
    ELSE LET pair == IF i <= 12 THEN (mp \div 4^(12 - i)) % 4 ELSE 0
             r == rem * 4 + pair
             t == root * 4 + 1
         IN IF r >= t THEN SqrtIter(mp, i + 1, root * 2 + 1, r - t)
            ELSE SqrtIter(mp, i + 1, root * 2, r)

\* float32(math.Sqrt(float64(a)))
FSqrt(a) ==
    IF IsNaN(a) \/ a.m < 0 THEN NaN
    ELSE IF IsInf(a) \/ a.m = 0 THEN a
    ELSE LET odd == a.e % 2 = 1
             mp == IF odd THEN a.m * 2 ELSE a.m
             ee == IF odd THEN a.e - 1 ELSE a.e
             rr == SqrtIter(mp, 0, 0, 0)
         IN RoundPack(rr[1], (ee \div 2) - 14, rr[2] # 0)

\* a < b
FLt(a, b) ==
    IF IsNaN(a) \/ IsNaN(b) THEN FALSE
    ELSE IF a.m < 0 /\ b.m >= 0 THEN TRUE
    ELSE IF a.m >= 0 /\ b.m <= 0 THEN FALSE
    ELSE IF a.m = 0 THEN TRUE
    ELSE IF a.m > 0 THEN a.e < b.e \/ (a.e = b.e /\ a.m < b.m)
    ELSE a.e > b.e \/ (a.e = b.e /\ a.m < b.m)

FGt(a, b) == FLt(b, a)

\* float32(n) for an int n with |n| < 2^31
FromInt(n) == WithSign(n < 0, RoundPack(Abs(n), 0, FALSE))

\* the float32 nearest to the decimal n / d
F(n, d) == FDiv(FromInt(n), FromInt(d))

\* uint8(a) for 0 <= a < 256; the conversion of NaN or an infinity is
\* implementation-specific and is kept as -1
ToUint8(a) ==
    IF a.e = 999 THEN -1
    ELSE IF a.m <= 0 THEN 0
    ELSE IF a.e >= 0 THEN a.m * 2^a.e
    ELSE IF a.e < -24 THEN 0
    ELSE a.m \div 2^(-a.e)

FOne == [m |-> 8388608, e |-> -23]

FHalf == [m |-> 8388608, e |-> -24]

\* |a - b| <= tol
FNear(a, b, tol) ==
    LET d == FSub(a, b)
    IN ~IsNaN(d) /\ ~FLt(tol, WithSign(FALSE, [d EXCEPT !.m = Abs(@)]))

\* ----------------------------------------------------------------- vectors
Vec(x, y, z) == [x |-> x, y |-> y, z |-> z]

\* Vec{}
VecZero == Vec(FZero, FZero, FZero)

LenSq(v) == FAdd(FAdd(FMul(v.x, v.x), FMul(v.y, v.y)), FMul(v.z, v.z))

\* Vec.Len
VecLen(v) == FSqrt(LenSq(v))

VecAdd(a, b) == Vec(FAdd(a.x, b.x), FAdd(a.y, b.y), FAdd(a.z, b.z))

VecSub(a, b) == Vec(FSub(a.x, b.x), FSub(a.y, b.y), FSub(a.z, b.z))

VecDot(a, b) == FAdd(FAdd(FMul(a.x, b.x), FMul(a.y, b.y)), FMul(a.z, b.z))

VecCross(a, b) ==
    Vec(FSub(FMul(a.y, b.z), FMul(a.z, b.y)),
        FSub(FMul(a.z, b.x), FMul(a.x, b.z)),
        FSub(FMul(a.x, b.y), FMul(a.y, b.x)))

VecScale(v, s) == Vec(FMul(v.x, s), FMul(v.y, s), FMul(v.z, s))

\* Vec.Normalize
Normalize(v) == VecScale(v, FDiv(FOne, VecLen(v)))

\* ---------------------------------------------------------------- matrices
Mat(xx, xy, xz, yx, yy, yz, zx, zy, zz) ==
    [xx |-> xx, xy |-> xy, xz |-> xz,
     yx |-> yx, yy |-> yy, yz |-> yz,
     zx |-> zx, zy |-> zy, zz |-> zz]

MatIdent == Mat(FOne, FZero, FZero, FZero, FOne, FZero, FZero, FZero, FOne)

MatVec(m, v) ==
    Vec(FAdd(FAdd(FMul(m.xx, v.x), FMul(m.xy, v.y)), FMul(m.xz, v.z)),
        FAdd(FAdd(FMul(m.yx, v.x), FMul(m.yy, v.y)), FMul(m.yz, v.z)),
        FAdd(FAdd(FMul(m.zx, v.x), FMul(m.zy, v.y)), FMul(m.zz, v.z)))

\* one entry of MatMat: a1*b1 + a2*b2 + a3*b3
Dot3(a1, b1, a2, b2, a3, b3) == FAdd(FAdd(FMul(a1, b1), FMul(a2, b2)), FMul(a3, b3))

MatMat(m1, m2) ==
    Mat(Dot3(m1.xx, m2.xx, m1.xy, m2.yx, m1.xz, m2.zx),
        Dot3(m1.xx, m2.xy, m1.xy, m2.yy, m1.xz, m2.zy),
        Dot3(m1.xx, m2.xz, m1.xy, m2.yz, m1.xz, m2.zz),
        Dot3(m1.yx, m2.xx, m1.yy, m2.yx, m1.yz, m2.zx),
        Dot3(m1.yx, m2.xy, m1.yy, m2.yy, m1.yz, m2.zy),
        Dot3(m1.yx, m2.xz, m1.yy, m2.yz, m1.yz, m2.zz),
        Dot3(m1.zx, m2.xx, m1.zy, m2.yx, m1.zz, m2.zx),
        Dot3(m1.zx, m2.xy, m1.zy, m2.yy, m1.zz, m2.zy),
        Dot3(m1.zx, m2.xz, m1.zy, m2.yz, m1.zz, m2.zz))

\* Mat.Scale
MatScale(m, s) == [f \in DOMAIN m |-> FMul(m[f], s)]

\* Mat.Add
MatAdd(m, b) == [f \in DOMAIN m |-> FAdd(m[f], b[f])]

\* float32(2.0 * math.Pi)
TwoPi == [m |-> 13176795, e |-> -21]

\* math.Sincos(float64(a)), both results converted to float32, for the
\* angles a = 2*Pi / nframes / sqrt(sum) and their negatives, nframes a
\* multiple of FPS up to 4 * FPS and sum in 1 .. 3
SincosTable ==
    << [a |-> FZero, sin |-> FZero, cos |-> FOne],
           [a |-> [m |-> 8433149, e |-> -26],
            sin |-> [m |-> 8410971, e |-> -26], cos |-> [m |-> 16644923, e |-> -24]],
           [a |-> [m |-> -8433149, e |-> -26],
            sin |-> [m |-> -8410971, e |-> -26], cos |-> [m |-> 16644923, e |-> -24]],
           [a |-> [m |-> 11926274, e |-> -27],
            sin |-> [m |-> 11910586, e |-> -27], cos |-> [m |-> 16711026, e |-> -24]],
           [a |-> [m |-> -11926274, e |-> -27],
            sin |-> [m |-> -11910586, e |-> -27], cos |-> [m |-> 16711026, e |-> -24]],
           [a |-> [m |-> 9737762, e |-> -27],
            sin |-> [m |-> 9729221, e |-> -27], cos |-> [m |-> 16733079, e |-> -24]],
           [a |-> [m |-> -9737762, e |-> -27],
            sin |-> [m |-> -9729221, e |-> -27], cos |-> [m |-> 16733079, e |-> -24]],
           [a |-> [m |-> 8433149, e |-> -27],
            sin |-> [m |-> 8427601, e |-> -27], cos |-> [m |-> 16744110, e |-> -24]],
           [a |-> [m |-> -8433149, e |-> -27],
            sin |-> [m |-> -8427601, e |-> -27], cos |-> [m |-> 16744110, e |-> -24]],
           [a |-> [m |-> 11926274, e |-> -28],
            sin |-> [m |-> 11922351, e |-> -28], cos |-> [m |-> 16760660, e |-> -24]],
           [a |-> [m |-> -11926274, e |-> -28],
            sin |-> [m |-> -11922351, e |-> -28], cos |-> [m |-> 16760660, e |-> -24]],
           [a |-> [m |-> 9737762, e |-> -28],
            sin |-> [m |-> 9735626, e |-> -28], cos |-> [m |-> 16766178, e |-> -24]],
           [a |-> [m |-> -9737762, e |-> -28],
            sin |-> [m |-> -9735626, e |-> -28], cos |-> [m |-> 16766178, e |-> -24]],
           [a |-> [m |-> 11244198, e |-> -28],
            sin |-> [m |-> 11240910, e |-> -28], cos |-> [m |-> 16762500, e |-> -24]],
           [a |-> [m |-> -11244198, e |-> -28],
            sin |-> [m |-> -11240910, e |-> -28], cos |-> [m |-> 16762500, e |-> -24]],
           [a |-> [m |-> 15901698, e |-> -29],
            sin |-> [m |-> 15899373, e |-> -29], cos |-> [m |-> 16769857, e |-> -24]],
           [a |-> [m |-> -15901698, e |-> -29],
            sin |-> [m |-> -15899373, e |-> -29], cos |-> [m |-> 16769857, e |-> -24]],
           [a |-> [m |-> 12983682, e |-> -29],
            sin |-> [m |-> 12982416, e |-> -29], cos |-> [m |-> 16772310, e |-> -24]],
           [a |-> [m |-> -12983682, e |-> -29],
            sin |-> [m |-> -12982416, e |-> -29], cos |-> [m |-> 16772310, e |-> -24]],
           [a |-> [m |-> 8433149, e |-> -28],
            sin |-> [m |-> 8431762, e |-> -28], cos |-> [m |-> 16768937, e |-> -24]],
           [a |-> [m |-> -8433149, e |-> -28],
            sin |-> [m |-> -8431762, e |-> -28], cos |-> [m |-> 16768937, e |-> -24]],
           [a |-> [m |-> 11926274, e |-> -29],
            sin |-> [m |-> 11925293, e |-> -29], cos |-> [m |-> 16773077, e |-> -24]],
           [a |-> [m |-> -11926274, e |-> -29],
            sin |-> [m |-> -11925293, e |-> -29], cos |-> [m |-> 16773077, e |-> -24]],
           [a |-> [m |-> 9737762, e |-> -29],
            sin |-> [m |-> 9737228, e |-> -29], cos |-> [m |-> 16774456, e |-> -24]],
           [a |-> [m |-> -9737762, e |-> -29],
            sin |-> [m |-> -9737228, e |-> -29], cos |-> [m |-> 16774456, e |-> -24]] >>

Sincos(a) ==
    IF a.e = 999 THEN [a |-> a, sin |-> NaN, cos |-> NaN]
    ELSE CHOOSE r \in { SincosTable[k] : k \in DOMAIN SincosTable } : r.a = a

MatRotX(angle) ==
    LET sc == Sincos(angle)
    IN Mat(FOne, FZero, FZero,
           FZero, sc.cos, sc.sin,
           FZero, FNeg(sc.sin), sc.cos)

MatRotY(angle) ==
    LET sc == Sincos(angle)
    IN Mat(sc.cos, FZero, FNeg(sc.sin),
           FZero, FOne, FZero,
           sc.sin, FZero, sc.cos)

MatRotZ(angle) ==
    LET sc == Sincos(angle)
    IN Mat(sc.cos, sc.sin, FZero,
           FNeg(sc.sin), sc.cos, FZero,
           FZero, FZero, FOne)

MatSkew(v) ==
    Mat(FZero, FNeg(v.z), v.y,
        v.z, FZero, FNeg(v.x),
        FNeg(v.y), v.x, FZero)

\* MatAlignRot(a, b): the rotation that aligns a with b
MatAlignRot(a, b) ==
    LET v == VecCross(a, b)
        s == VecLen(v)
        c == VecDot(a, b)
        x == MatSkew(v)
        r == MatAdd(MatIdent, x)
        x2 == MatScale(MatMat(x, x), FDiv(FSub(FOne, c), FMul(s, s)))
    IN MatAdd(r, x2)

\* ------------------------------------------------------------------ shapes
\* Ray{orig, dir}
Ray(orig, dir) == [orig |-> orig, dir |-> dir]

\* TestLineSphere(ray, sp, sr): does the line of the ray pass the sphere?
TestLineSphere(ray, sp, sr) ==
    LET lx == FSub(sp.x, ray.orig.x)
        ly == FSub(sp.y, ray.orig.y)
        lz == FSub(sp.z, ray.orig.z)
        ll == FAdd(FAdd(FMul(lx, lx), FMul(ly, ly)), FMul(lz, lz))
        dl == FAdd(FAdd(FMul(ray.dir.x, lx), FMul(ray.dir.y, ly)), FMul(ray.dir.z, lz))
    IN FLt(FSub(ll, FMul(dl, dl)), FMul(sr, sr))

\* the three results of Shape.Intersect
Hit(t, p, n) == [t |-> t, p |-> p, n |-> n]

\* return math.MaxFloat32, Vec{}, Vec{}
NoHit == Hit(MaxFloat32, VecZero, VecZero)

NewSphere(pos, radius) ==
    [kind |-> "sphere", pos |-> pos, radius |-> radius, material |-> RGBA(0, 0, 0, 0)]

\* Sphere.FastIntersect
SphereFastIntersect(s, ray) == TestLineSphere(ray, s.pos, s.radius)

\* Sphere.Intersect
SphereIntersect(s, ray) ==
    LET l == VecSub(s.pos, ray.orig)
        tca == VecDot(ray.dir, l)
        d2 == FSub(LenSq(l), FMul(tca, tca))
        r2 == FMul(s.radius, s.radius)
        thc == FSqrt(FSub(r2, d2))
        t0 == FSub(tca, thc)
        t == IF FLt(t0, FZero) THEN FAdd(tca, thc) ELSE t0
        p == VecAdd(VecScale(ray.dir, t), ray.orig)
        n == Normalize(VecSub(p, s.pos))
    IN IF FGt(d2, r2) THEN NoHit ELSE Hit(t, p, n)

\* NewCylinder(a, b, r)
NewCylinder(a, b, r) ==
    LET axis == VecSub(b, a)
        halfz == FDiv(VecLen(axis), FromInt(2))
    IN [kind |-> "cylinder",
        pos |-> VecScale(VecAdd(a, b), FHalf),
        sphereRadius |-> FSqrt(FAdd(FMul(r, r), FMul(halfz, halfz))),
        axis |-> Normalize(axis),
        radius |-> r,
        halfz |-> halfz,
        material |-> RGBA(0, 0, 0, 0)]

\* Cylinder.FastIntersect
CylinderFastIntersect(c, ray) == TestLineSphere(ray, c.pos, c.sphereRadius)

UnitZ == Vec(FZero, FZero, FOne)

\* Cylinder.Intersect
CylinderIntersect(c, ray) ==
    LET rot == MatAlignRot(c.axis, UnitZ)
        dir == MatVec(rot, ray.dir)
        orig == MatVec(rot, VecSub(ray.orig, c.pos))
        dd == FAdd(FMul(dir.x, dir.x), FMul(dir.y, dir.y))
        oo == FAdd(FMul(orig.x, orig.x), FMul(orig.y, orig.y))
        b == FMul(FromInt(2), FAdd(FMul(orig.x, dir.x), FMul(orig.y, dir.y)))
        d == FSub(FMul(b, b),
                  FMul(FMul(FromInt(4), dd), FSub(oo, FMul(c.radius, c.radius))))
        sd == FSqrt(d)
        t0 == FDiv(FSub(FNeg(b), sd), FMul(FromInt(2), dd))
        t == IF FLt(t0, FZero) THEN FDiv(FAdd(FNeg(b), sd), FMul(FromInt(2), dd)) ELSE t0
        p == VecAdd(VecScale(dir, t), orig)
        back == MatAlignRot(UnitZ, c.axis)
    IN IF FLt(d, FZero) THEN NoHit
       ELSE IF FLt(p.z, FNeg(c.halfz)) \/ FGt(p.z, c.halfz) THEN NoHit
       ELSE Hit(t, VecAdd(MatVec(back, p), c.pos),
                Normalize(MatVec(back, Vec(p.x, p.y, FZero))))

\* Shape.FastIntersect, Shape.Intersect
FastIntersect(s, ray) ==
    IF s.kind = "sphere" THEN SphereFastIntersect(s, ray) ELSE CylinderFastIntersect(s, ray)

ShapeIntersect(s, ray) ==
    IF s.kind = "sphere" THEN SphereIntersect(s, ray) ELSE CylinderIntersect(s, ray)

\* -------------------------------------------------------------------- view
\* NewView(width, height, dist)
NewView(width, height, dist) ==
    [width |-> width, height |-> height,
     pos |-> Vec(FZero, FZero, FNeg(dist)),
     look |-> Vec(FZero, FZero, FOne),
     right |-> Vec(FOne, FZero, FZero),
     up |-> Vec(FZero, FOne, FZero)]

NoView == NewView(0, 0, FZero)

\* View.NewRay(x, y)
NewRay(v, x, y) ==
    LET dx == FDiv(FromInt(x - (v.width \div 2)), FromInt(v.height))
        dy == FDiv(FromInt(y - (v.height \div 2)), FromInt(v.height))
        dir == VecAdd(VecAdd(v.look, VecScale(v.right, dx)), VecScale(v.up, dy))
    IN Ray(v.pos, Normalize(dir))

\* ---------------------------------------------------------------- molecule
\* three entries of the element table
Elements ==
    [H |-> RGBA(255, 255, 255, 255),
     C |-> RGBA(146, 146, 146, 255),
     O |-> RGBA(240, 0, 0, 255)]

Atom(name, pos) == [name |-> name, pos |-> pos]

\* thresh * thresh, the constant 1.6 * 1.6 as a float32
threshSq == F(256, 100)

\* the ordered pairs (a, b) in the order of the two nested range loops
LoopPairs(n) == [k \in 1 .. n * n |-> << ((k - 1) \div n) + 1, ((k - 1) % n) + 1 >>]

\* faulty variant: the distance is compared, not its square
BondTestNotSquared(a, b) ==
    IF a.name = "H" /\ b.name = "H" THEN FALSE
    ELSE FLt(VecLen(VecSub(a.pos, b.pos)), threshSq)

\* faulty variant: a pair is skipped when either atom is a hydrogen
BondTestAnyH(a, b) ==
    IF a.name = "H" \/ b.name = "H" THEN FALSE
    ELSE FLt(LenSq(VecSub(a.pos, b.pos)), threshSq)

\* the body of the inner loop of MakeBonds: does the pair get a Bond{a, b}?
BondTest(a, b) ==
    IF a.name = "H" /\ b.name = "H" THEN FALSE
    ELSE FLt(LenSq(VecSub(a.pos, b.pos)), threshSq)

\* faulty variant: the inner loop starts after atom a
MakeBondsUpper(atoms) ==
    SelectSeq(LoopPairs(Len(atoms)),
              LAMBDA p : p[1] < p[2] /\ BondTest(atoms[p[1]], atoms[p[2]]))

\* Molecule.MakeBonds: the bond list, each bond a pair of atom indices
\* (the two *Atom pointers)
MakeBonds(atoms) ==
    SelectSeq(LoopPairs(Len(atoms)), LAMBDA p : BondTest(atoms[p[1]], atoms[p[2]]))

\* src/molgif.go: the same scan without the hydrogen-hydrogen exclusion
BondTestAll(a, b) == FLt(LenSq(VecSub(a.pos, b.pos)), threshSq)

MakeBondsAll(atoms) ==
    SelectSeq(LoopPairs(Len(atoms)), LAMBDA p : BondTestAll(atoms[p[1]], atoms[p[2]]))

\* var c Vec; for _, a := range mol.atoms { c.Add(a.pos) }
RECURSIVE VecSum(_)
VecSum(atoms) ==
    IF atoms = <<>> THEN VecZero
    ELSE VecAdd(VecSum(SubSeq(atoms, 1, Len(atoms) - 1)), atoms[Len(atoms)].pos)

\* the vector MoveToOrigin subtracts: the sum scaled by 1.0 / float32(len)
Centroid(atoms) == VecScale(VecSum(atoms), FDiv(FOne, FromInt(Len(atoms))))

\* faulty variant: the sum of the positions is subtracted, not their mean
MoveToOriginNoScale(atoms) ==
    LET c == VecSum(atoms)
    IN [k \in 1 .. Len(atoms) |-> [atoms[k] EXCEPT !.pos = VecSub(@, c)]]

\* faulty variant: the atoms are scaled by 1/len along with the sum
MoveToOriginScaleAtoms(atoms) ==
    LET s == FDiv(FOne, FromInt(Len(atoms)))
        c == VecScale(VecSum(atoms), s)
    IN [k \in 1 .. Len(atoms) |-> [atoms[k] EXCEPT !.pos = VecSub(VecScale(@, s), c)]]

\* Molecule.MoveToOrigin
MoveToOrigin(atoms) ==
    LET c == Centroid(atoms)
    IN [k \in 1 .. Len(atoms) |-> [atoms[k] EXCEPT !.pos = VecSub(@, c)]]

\* faulty variant: an input without atom records is not an error
NewMoleculeNoEmptyCheck(recs) ==
    IF \E k \in 1 .. Len(recs) : recs[k].name \notin DOMAIN Elements
        THEN [err |-> "unknown element", atoms |-> <<>>, bonds |-> <<>>]
    ELSE [err |-> "", atoms |-> MoveToOrigin(recs), bonds |-> MakeBonds(recs)]

\* NewMolecule, from the atom records the scanner read (the element names
\* after strings.Title)
NewMolecule(recs) ==
    IF \E k \in 1 .. Len(recs) : recs[k].name \notin DOMAIN Elements
        THEN [err |-> "unknown element", atoms |-> <<>>, bonds |-> <<>>]
    ELSE IF Len(recs) = 0
        THEN [err |-> "no atoms found", atoms |-> <<>>, bonds |-> <<>>]
    ELSE [err |-> "", atoms |-> MoveToOrigin(recs), bonds |-> MakeBonds(recs)]

\* faulty variant: the rotated atoms are appended to the atom list
RotateAppend(atoms, rot) ==
    atoms \o [k \in 1 .. Len(atoms) |-> [atoms[k] EXCEPT !.pos = MatVec(rot, @)]]

\* Molecule.Rotate(rot)
Rotate(atoms, rot) == [k \in 1 .. Len(atoms) |-> [atoms[k] EXCEPT !.pos = MatVec(rot, @)]]

\* ---------------------------------------------------------------- geometry
\* the constant 0.001 of UpdateGeometry as a float32
BondSizeEps == F(1, 1000)

RECURSIVE BondShapes(_, _, _)
BondShapes(m, bonds, bondSize) ==
    IF bonds = <<>> THEN <<>>
    ELSE LET bnd == Head(bonds)
             pa == m.atoms[bnd[1]]
             pb == m.atoms[bnd[2]]
             mid == VecScale(VecAdd(pa.pos, pb.pos), FHalf)
         IN << [NewCylinder(pa.pos, mid, bondSize) EXCEPT !.material = Elements[pa.name]],
               [NewCylinder(pb.pos, mid, bondSize) EXCEPT !.material = Elements[pb.name]] >>
            \o BondShapes(m, Tail(bonds), bondSize)

\* faulty variant: bonds are drawn at the threshold size too
UpdateGeometryAtThreshold(m, atomSize, bondSize) ==
    [k \in 1 .. Len(m.atoms) |->
        [NewSphere(m.atoms[k].pos, atomSize) EXCEPT !.material = Elements[m.atoms[k].name]]]
    \o (IF ~FLt(bondSize, BondSizeEps) THEN BondShapes(m, m.bonds, bondSize) ELSE <<>>)

\* Scene.UpdateGeometry: the new value of sc.shapes
UpdateGeometry(m, atomSize, bondSize) ==
    [k \in 1 .. Len(m.atoms) |->
        [NewSphere(m.atoms[k].pos, atomSize) EXCEPT !.material = Elements[m.atoms[k].name]]]
    \o (IF FGt(bondSize, BondSizeEps) THEN BondShapes(m, m.bonds, bondSize) ELSE <<>>)

\* ------------------------------------------------------------------- scene
\* the loop of NewScene: the largest distance of an atom from the origin
RECURSIVE MaxLen(_)
MaxLen(atoms) ==
    IF atoms = <<>> THEN FZero
    ELSE LET r == MaxLen(SubSeq(atoms, 1, Len(atoms) - 1))
             l == VecLen(atoms[Len(atoms)].pos)
         IN IF FGt(l, r) THEN l ELSE r

\* NewScene(mol, w, h): the view
SceneView(atoms, w, h) == NewView(w, h, FAdd(MaxLen(atoms), FromInt(8)))

\* sc.light, set by NewScene
LightPos == Vec(FromInt(1000), FromInt(500), FromInt(-1000))

\* the ambient light 0.2 of ComputePixel as a float32
Ambient == F(2, 10)

\* the body of "if z < zmin" in ComputePixel: the colour of shape s lit at
\* point v with normal n
Shade(s, v, n) ==
    LET lp == Normalize(VecSub(LightPos, v))
        d0 == VecDot(lp, n)
        d1 == IF FLt(d0, FZero) THEN FZero ELSE d0
        d2 == FAdd(d1, Ambient)
        dot == IF FGt(d2, FOne) THEN FOne ELSE d2
    IN RGBA(ToUint8(FMul(FromInt(s.material.R), dot)),
            ToUint8(FMul(FromInt(s.material.G), dot)),
            ToUint8(FMul(FromInt(s.material.B), dot)),
            s.material.A)

\* the loop of ComputePixel from shape k on; fast is TRUE in the program
\* (FALSE is the loop without the FastIntersect test)
RECURSIVE PixelLoop(_, _, _, _, _, _)
PixelLoop(shps, ray, k, pix, zmin, fast) ==
    IF k > Len(shps) THEN pix
    ELSE IF fast /\ ~FastIntersect(shps[k], ray)
        THEN PixelLoop(shps, ray, k + 1, pix, zmin, fast)
    ELSE LET h == ShapeIntersect(shps[k], ray)
         IN IF FLt(h.t, zmin)
               THEN PixelLoop(shps, ray, k + 1, Shade(shps[k], h.p, h.n), h.t, fast)
               ELSE PixelLoop(shps, ray, k + 1, pix, zmin, fast)

\* Scene.ComputePixel(x, y) for the scene sc: shapes, view, bg
ComputePixel(sc, x, y) ==
    PixelLoop(sc.shapes, NewRay(sc.view, x, y), 1, sc.bg, MaxFloat32, TRUE)

\* the Scene as main fills it in
Scene(shps, v, flags) ==
    [shapes |-> shps, view |-> v, bg |-> RGBA(flags.bgr, flags.bgg, flags.bgb, 255)]

\* ---------------------------------------------------------------- renderer
\* the colour Scene.ComputePixel(x, y) returns on the shape list shapes (the
\* view, the light and the background never change once main has set them)
Pixel(shapes, x, y) == [zero |-> FALSE, shapes |-> shapes, x |-> x, y |-> y]

\* Scene.RenderTile(b): a new image with bounds b, every pixel of b set to
\* ComputePixel
RenderTile(shapes, b) == [NewRGBA(b) EXCEPT !.Pix = [k \in Squares(b) |-> <<shapes>>]]

\* RGBA.At(x, y)
At(m, x, y) ==
    IF ~PtIn(x, y, m.Rect) THEN ZeroColor
    ELSE LET v == m.Pix[<< x \div tileSize, y \div tileSize >>]
         IN IF v = <<>> THEN ZeroColor ELSE Pixel(v[1], x, y)

\* draw.Draw(dst, r, src, r.Min, draw.Src): r is clipped to both images and
\* the pixels of the clipped rectangle are copied
Draw(dst, r, src) ==
    LET c == Intersect(Intersect(r, dst.Rect), src.Rect)
    IN [dst EXCEPT !.Pix = [k \in DOMAIN @ |-> IF k \in Squares(c) THEN src.Pix[k] ELSE @[k]]]

\* faulty variant: image.Rect(x, y, tileSize, tileSize), the offsets forgotten in Max
\* (image.Rect orders the coordinates)
TileRectNoOffset(i, j) ==
    Rect(MinOf(i * tileSize, tileSize), MinOf(j * tileSize, tileSize),
         MaxOf(i * tileSize, tileSize), MaxOf(j * tileSize, tileSize))

\* faulty variant: y := i * tileSize
TileRectTypo(i, j) ==
    Rect(i * tileSize, i * tileSize, i * tileSize + tileSize, i * tileSize + tileSize)

\* the rectangle the dispatch loop sends for loop indices i, j
TileRect(i, j) ==
    Rect(i * tileSize, j * tileSize, i * tileSize + tileSize, j * tileSize + tileSize)

\* faulty variant: the partial tile at the edge is dropped
NTilesFloor(d) == d \div tileSize

\* number of tiles along an axis of length d
NTiles(d) == (d + tileSize - 1) \div tileSize

\* MakePaletted(img): the dithered indexed-colour copy of img
MakePaletted(m) == [Rect |-> m.Rect, Pix |-> m.Pix, banner |-> m.banner, paletted |-> TRUE]

\* ------------------------------------------------------------------- state
VARIABLES
    pc,         \* where the main goroutine is
    input,      \* the atom records of the input file
    cfg,        \* the flag variables: w, h, t, p, bgr, bgg, bgb, atomSize (-a),
                \* bondSize (-d), banner (not -l), rot (-x -y -z -X -Y -Z),
                \* e (-e given), inp (an input file is named)
    np,         \* runtime.NumCPU()
    mol,        \* the Molecule: err, atoms, bonds
    shapes,     \* sc.shapes
    view,       \* sc.view
    created,    \* the output file has been created
    prof,       \* the profile file has been created
    nrot,       \* history: the number of Rotate calls
    img,        \* Render: the frame buffer
    ntilx,      \* Render: tiles along x
    ntily,      \* Render: tiles along y
    ti,         \* Render: dispatch loop index i
    tj,         \* Render: dispatch loop index j
    inClosed,   \* Render: close(in) has run
    out,        \* Render: the buffered channel of sub-images
    outClosed,  \* Render: close(out) has run
    wg,         \* Render: the WaitGroup counter
    wk,         \* Render: the worker goroutines: pc, t (tile), m (sub-image)
    fi,         \* RenderAll: loop index i
    g,          \* RenderAll: the gif.GIF: Image, Delay
    recvd,      \* history: the tiles received from channel in, in order
    sent,       \* history: the bounds of the sub-images sent on channel out
    drawn,      \* history: the bounds of the sub-images drawn, in order
    snap,       \* history: sc.shapes when the current Render call began
    px          \* RenderTile: the pixel set last: x, y, colour (a pixel term)

vars == << pc, input, cfg, np, mol, shapes, view, created, prof, nrot, img,
           ntilx, ntily, ti, tj, inClosed, out, outClosed, wg, wk, fi, g,
           recvd, sent, drawn, snap, px >>

renderVars == << img, ntilx, ntily, ti, tj, inClosed, out, outClosed, wg, wk,
                 recvd, sent, drawn, snap >>

\* what a Render call leaves alone
callerVars == << input, cfg, np, mol, shapes, view, created, prof, nrot, fi, g, px >>

Workers == 1 .. np

IdleWorker == [pc |-> "none", t |-> ZR, m |-> NoImage]

\* faulty variant: out is buffered for one sub-image per worker
OutCapPerWorker == np

\* capacity of channel out: make(chan image.Image, ntilx*ntily)
OutCap == ntilx * ntily

\* faulty variant: Render does not wait for the workers
WaitDoneNoBarrier == TRUE

\* wg.Wait() returns
WaitDone == wg = 0

\* --------------------------------------------------------------- inputs
\* the coordinates of the input files, as fmt.Sscanf reads them
Coords == {FZero, F(16, 10), F(-7, 10)}

Sizes(n) == UNION { {(k - 1) * tileSize + 1, k * tileSize} : k \in 1 .. n }

\* the image sizes of at most MaxTiles tiles: on both sides of every tile edge
FrameSizes ==
    { wh \in Sizes(MaxTiles) \X Sizes(MaxTiles) :
        ((wh[1] + tileSize - 1) \div tileSize) * ((wh[2] + tileSize - 1) \div tileSize) <= MaxTiles }

\* a water molecule
Water ==
    << Atom("O", Vec(FZero, FZero, FZero)),
       Atom("H", Vec(F(757, 1000), F(586, 1000), FZero)),
       Atom("H", Vec(F(-757, 1000), F(586, 1000), FZero)) >>

Inputs ==
    { Water,
      << Atom("C", Vec(FZero, FZero, FZero)), Atom("Xx", Vec(F(12, 10), FZero, FZero)) >>,
      << >> }

AtomValues == { Atom(n, Vec(x, FZero, FZero)) : n \in {"H", "C"}, x \in Coords }

BondInputs == UNION { [1 .. n -> AtomValues] : n \in 1 .. MaxAtoms }

\* the rotation flags given: a set of flag letters
RotFlags(s) ==
    [x |-> "x" \in s, y |-> "y" \in s, z |-> "z" \in s,
     X |-> "X" \in s, Y |-> "Y" \in s, Z |-> "Z" \in s]

\* flag values that pass every check of main
GoodFlags ==
    [w : {tileSize + 1}, h : {tileSize}, t : {1}, p : {TRUE},
     bgr : {0}, bgg : {0}, bgb : {0},
     atomSize : {F(4, 10)}, bondSize : {F(2, 10)}, banner : {TRUE},
     rot : {RotFlags({})}, e : {FALSE}, inp : {TRUE}]

\* flag values for an animation
AnimFlags ==
    { [f EXCEPT !.t = t, !.p = FALSE] : f \in GoodFlags, t \in 1 .. MaxLoopTime }
    \cup { [f EXCEPT !.p = FALSE, !.rot = RotFlags({"x", "Z"})] : f \in GoodFlags }

\* flag values for a single image, any of them possibly out of range
ImageFlags ==
    [w : {0, tileSize + 1}, h : {0, tileSize}, t : {0, 1}, p : {TRUE},
     bgr : {0, 256}, bgg : {0, 256}, bgb : {0, 256},
     atomSize : {F(-1, 10), F(4, 10)}, bondSize : {F(-1, 10), F(2, 10), F(5, 10)},
     banner : BOOLEAN, rot : {RotFlags({})}, e : BOOLEAN, inp : BOOLEAN]

\* flag values for a single image with -d 0.001, the bond size at which no
\* bond is drawn
ThinBondFlags == { [f EXCEPT !.bondSize = F(1, 1000)] : f \in GoodFlags }

NoMol == [err |-> "", atoms |-> <<>>, bonds |-> <<>>]

\* no pixel set yet
NoPixel == [x |-> -1, y |-> -1, colour |-> ZeroColor]

InitLocals ==
    /\ nrot = 0
    /\ px = NoPixel
    /\ img = NoImage
    /\ ntilx = 0
    /\ ntily = 0
    /\ ti = 0
    /\ tj = 0
    /\ inClosed = FALSE
    /\ out = <<>>
    /\ outClosed = FALSE
    /\ wg = 0
    /\ wk = [w \in 1 .. np |-> IdleWorker]
    /\ fi = 0
    /\ g = [Image |-> <<>>, Delay |-> <<>>]
    /\ recvd = <<>>
    /\ sent = <<>>
    /\ drawn = <<>>
    /\ snap = <<>>

\* a run of main from the point where the flags are parsed
Init ==
    /\ pc = "flags"
    /\ input \in Inputs
    /\ cfg \in AnimFlags \cup ImageFlags \cup ThinBondFlags
    /\ np = MaxNP
    /\ mol = NoMol
    /\ shapes = <<>>
    /\ view = NoView
    /\ created = FALSE
    /\ prof = FALSE
    /\ InitLocals

\* main from the call of NewMolecule on every input file of at most
\* MaxAtoms atoms
InitBonds ==
    /\ pc = "load"
    /\ input \in BondInputs
    /\ cfg \in { [f EXCEPT !.w = tileSize, !.bondSize = d] : f \in GoodFlags, d \in {FZero, F(2, 10)} }
    /\ np = 1
    /\ mol = NoMol
    /\ shapes = <<>>
    /\ view = NoView
    /\ created = FALSE
    /\ prof = FALSE
    /\ InitLocals

\* one Render call of a -p run, entered with the scene of main built
InitRender ==
    /\ pc = "render"
    /\ input = Water
    /\ \E wh \in FrameSizes : cfg \in { [f EXCEPT !.w = wh[1], !.h = wh[2]] : f \in GoodFlags }
    /\ np \in 1 .. MaxNP
    /\ mol = NewMolecule(input)
    /\ shapes = UpdateGeometry(mol, cfg.atomSize, cfg.bondSize)
    /\ view = SceneView(mol.atoms, cfg.w, cfg.h)
    /\ created = TRUE
    /\ prof = FALSE
    /\ InitLocals

\* every combination of the six rotation flags
AllRotFlags == { RotFlags(s) : s \in SUBSET {"x", "y", "z", "X", "Y", "Z"} }

\* main from the call of NewMolecule to the entry of RenderAll, for every
\* combination of the rotation flags
InitRotFlags ==
    /\ pc = "load"
    /\ input = Water
    /\ cfg \in { [f EXCEPT !.p = FALSE, !.rot = r] : f \in GoodFlags, r \in AllRotFlags }
    /\ np = 1
    /\ mol = NoMol
    /\ shapes = <<>>
    /\ view = NoView
    /\ created = FALSE
    /\ prof = FALSE
    /\ InitLocals

\* two carbons 1 apart
CarbonPair == << Atom("C", Vec(FZero, FZero, FZero)), Atom("C", Vec(FOne, FZero, FZero)) >>

\* two carbons 2 apart
CarbonsApart == << Atom("C", Vec(FZero, FZero, FZero)), Atom("C", Vec(FromInt(2), FZero, FZero)) >>

\* two carbons 1 apart on the z axis, the axis the camera looks along
CarbonsAlongZ == << Atom("C", Vec(FZero, FZero, FZero)), Atom("C", Vec(FZero, FZero, FOne)) >>

\* the input files and the flags -w -h -a -d of the scenes whose pixels are
\* computed: water with the default sizes; two carbons drawn as spheres
\* that the middle column of rays touches; two carbons drawn as large
\* spheres, the camera outside both, in a wide image; two carbons whose
\* bond lies along the z axis
PixelScenes ==
    { << Water, 8, 8, F(4, 10), F(2, 10) >>,
      << CarbonPair, 2, 2, FHalf, FZero >>,
      << CarbonsApart, 200, 1, F(903, 100), FZero >>,
      << CarbonsAlongZ, 2, 2, F(4, 10), F(2, 10) >> }

\* a worker in Scene.RenderTile, the scene of main built
InitPixel ==
    /\ pc = "tile"
    /\ \E s \in PixelScenes :
          /\ input = s[1]
          /\ cfg \in { [f EXCEPT !.w = s[2], !.h = s[3], !.atomSize = s[4], !.bondSize = s[5]] :
                            f \in GoodFlags }
    /\ np = 1
    /\ mol = NewMolecule(input)
    /\ shapes = UpdateGeometry(mol, cfg.atomSize, cfg.bondSize)
    /\ view = SceneView(mol.atoms, cfg.w, cfg.h)
    /\ created = TRUE
    /\ prof = FALSE
    /\ InitLocals

\* ----------------------------------------------------------------- main
\* the checks of main on the flag values, in the order of the code
FlagError ==
    IF cfg.w < 1 \/ cfg.h < 1 THEN "image width and height must be positive"
    ELSE IF cfg.t < 1 THEN "loop time must be positive"
    ELSE IF cfg.bgr > 255 \/ cfg.bgg > 255 \/ cfg.bgb > 255
        THEN "color component must be in the [0, 255] range"
    ELSE IF FLt(cfg.atomSize, FZero) THEN "atom size must be positive"
    ELSE IF FLt(cfg.bondSize, FZero) THEN "bond size must be positive"
    ELSE IF ~cfg.inp THEN "specify input file name"
    ELSE ""

\* faulty variant: the bond size is not checked
CheckFlagsNoBondCheck ==
    /\ pc = "flags"
    /\ prof' = cfg.e
    /\ LET err == IF cfg.w < 1 \/ cfg.h < 1 \/ cfg.t < 1 \/ ~cfg.inp
                      \/ cfg.bgr > 255 \/ cfg.bgg > 255 \/ cfg.bgb > 255
                      \/ FLt(cfg.atomSize, FZero) THEN "error" ELSE ""
       IN /\ pc' = IF err # "" THEN "fatal" ELSE "load"
          /\ cfg' = IF err = "" /\ FLt(cfg.atomSize, cfg.bondSize)
                        THEN [cfg EXCEPT !.bondSize = cfg.atomSize] ELSE cfg
    /\ UNCHANGED << input, np, mol, shapes, view, created, nrot, fi, g, px >>
    /\ UNCHANGED renderVars

\* main, from flag.Parse() to the call of NewMolecule: the profile file,
\* the checks (log.Fatal on the first that fails), the bond size cut down
\* to the atom size
CheckFlags ==
    /\ pc = "flags"
    /\ prof' = cfg.e
    /\ pc' = IF FlagError # "" THEN "fatal" ELSE "load"
    /\ cfg' = IF FlagError = "" /\ FLt(cfg.atomSize, cfg.bondSize)
                  THEN [cfg EXCEPT !.bondSize = cfg.atomSize] ELSE cfg
    /\ UNCHANGED << input, np, mol, shapes, view, created, nrot, fi, g, px >>
    /\ UNCHANGED renderVars

\* main: mol, err := NewMolecule(inp); log.Fatal on error
LoadMolecule ==
    /\ pc = "load"
    /\ mol' = NewMolecule(input)
    /\ pc' = IF mol'.err # "" THEN "fatal" ELSE "create"
    /\ UNCHANGED << input, cfg, np, shapes, view, created, prof, nrot, fi, g, px >>
    /\ UNCHANGED renderVars

NoRotFlag(r) == ~r.x /\ ~r.y /\ ~r.z /\ ~r.X /\ ~r.Y /\ ~r.Z

\* main: the default output name, the default rotation flag, os.Create
CreateOutput ==
    /\ pc = "create"
    /\ cfg' = IF NoRotFlag(cfg.rot) THEN [cfg EXCEPT !.rot.y = TRUE] ELSE cfg
    /\ created' = TRUE
    /\ pc' = "scene"
    /\ UNCHANGED << input, np, mol, shapes, view, prof, nrot, fi, g, px >>
    /\ UNCHANGED renderVars

\* faulty variant: main does not call UpdateGeometry
SetupSceneNoGeometry ==
    /\ pc = "scene"
    /\ view' = SceneView(mol.atoms, cfg.w, cfg.h)
    /\ pc' = IF cfg.p THEN "render" ELSE "loop"
    /\ fi' = 0
    /\ g' = [Image |-> <<>>, Delay |-> <<>>]
    /\ UNCHANGED << input, cfg, np, mol, shapes, created, prof, nrot, px >>
    /\ UNCHANGED renderVars

\* main: NewScene, the scene fields, sc.UpdateGeometry(); then the -p branch
\* or the entry of RenderAll
SetupScene ==
    /\ pc = "scene"
    /\ view' = SceneView(mol.atoms, cfg.w, cfg.h)
    /\ shapes' = UpdateGeometry(mol, cfg.atomSize, cfg.bondSize)
    /\ pc' = IF cfg.p THEN "render" ELSE "loop"
    /\ fi' = 0
    /\ g' = [Image |-> <<>>, Delay |-> <<>>]
    /\ UNCHANGED << input, cfg, np, mol, created, prof, nrot, px >>
    /\ UNCHANGED renderVars

\* main: png.Encode(f, m) or gif.EncodeAll(f, g)
Encode ==
    /\ pc = "encode"
    /\ pc' = "done"
    /\ UNCHANGED callerVars
    /\ UNCHANGED renderVars

\* ------------------------------------------------------------- RenderAll
nframes == cfg.t * FPS

\* faulty variant: a forward and a reverse flag of one axis cancel
rotvecCancel ==
    << (IF cfg.rot.x THEN 1 ELSE 0) - (IF cfg.rot.X THEN 1 ELSE 0),
       (IF cfg.rot.y THEN 1 ELSE 0) - (IF cfg.rot.Y THEN 1 ELSE 0),
       (IF cfg.rot.z THEN 1 ELSE 0) - (IF cfg.rot.Z THEN 1 ELSE 0) >>

\* main: the rotation vector from the flags
rotvec ==
    << IF cfg.rot.X THEN -1 ELSE IF cfg.rot.x THEN 1 ELSE 0,
       IF cfg.rot.Y THEN -1 ELSE IF cfg.rot.y THEN 1 ELSE 0,
       IF cfg.rot.Z THEN -1 ELSE IF cfg.rot.z THEN 1 ELSE 0 >>

\* RenderAll: the angle of one frame step
StepAngle(n, rv) ==
    LET sum == Abs(rv[1]) + Abs(rv[2]) + Abs(rv[3])
    IN FDiv(FDiv(TwoPi, FromInt(n)), FSqrt(FromInt(sum)))

\* faulty variant: the angle is computed for one more second of frames
RotMatLongerLoop(n, rv) ==
    LET ang == StepAngle(n + FPS, rv)
    IN MatMat(MatMat(MatMat(MatIdent, MatRotX(FMul(ang, FromInt(rv[1])))),
                     MatRotY(FMul(ang, FromInt(rv[2])))),
              MatRotZ(FMul(ang, FromInt(rv[3]))))

\* faulty variant: the three rotations are multiplied in the reverse order
RotMatReversed(n, rv) ==
    LET ang == StepAngle(n, rv)
    IN MatMat(MatMat(MatMat(MatIdent, MatRotZ(FMul(ang, FromInt(rv[3])))),
                     MatRotY(FMul(ang, FromInt(rv[2])))),
              MatRotX(FMul(ang, FromInt(rv[1]))))

\* RenderAll: the matrix rot of one frame step
RotMat(n, rv) ==
    LET ang == StepAngle(n, rv)
    IN MatMat(MatMat(MatMat(MatIdent, MatRotX(FMul(ang, FromInt(rv[1])))),
                     MatRotY(FMul(ang, FromInt(rv[2])))),
              MatRotZ(FMul(ang, FromInt(rv[3]))))

\* for i := 0; i < nframes; i++ { img := sc.Render() ...
LoopTest ==
    /\ pc = "loop"
    /\ pc' = IF fi < nframes THEN "render" ELSE "encode"
    /\ UNCHANGED callerVars
    /\ UNCHANGED renderVars

\* faulty variant: the delay is given in frames per second
AppendFrameWrongDelay ==
    /\ pc = "append"
    /\ g' = [Image |-> Append(g.Image, MakePaletted(img)),
             Delay |-> Append(g.Delay, FPS)]
    /\ pc' = "rotate"
    /\ UNCHANGED << input, cfg, np, mol, shapes, view, created, prof, nrot, fi, px >>
    /\ UNCHANGED renderVars

\* g.Image = append(g.Image, MakePaletted(img)); g.Delay = append(g.Delay, 100/FPS)
AppendFrame ==
    /\ pc = "append"
    /\ g' = [Image |-> Append(g.Image, MakePaletted(img)),
             Delay |-> Append(g.Delay, 100 \div FPS)]
    /\ pc' = "rotate"
    /\ UNCHANGED << input, cfg, np, mol, shapes, view, created, prof, nrot, fi, px >>
    /\ UNCHANGED renderVars

\* sc.mol.Rotate(rot)
RotateMol ==
    /\ pc = "rotate"
    /\ mol' = [mol EXCEPT !.atoms = Rotate(@, RotMat(nframes, rotvec))]
    /\ nrot' = nrot + 1
    /\ pc' = "update"
    /\ UNCHANGED << input, cfg, np, shapes, view, created, prof, fi, g, px >>
    /\ UNCHANGED renderVars

\* faulty variant: the shape list is not rebuilt after the rotation
RebuildGeometrySkipped ==
    /\ pc = "update"
    /\ fi' = fi + 1
    /\ pc' = "loop"
    /\ UNCHANGED << input, cfg, np, mol, shapes, view, created, prof, nrot, g, px >>
    /\ UNCHANGED renderVars

\* sc.UpdateGeometry(); i++
RebuildGeometry ==
    /\ pc = "update"
    /\ shapes' = UpdateGeometry(mol, cfg.atomSize, cfg.bondSize)
    /\ fi' = fi + 1
    /\ pc' = "loop"
    /\ UNCHANGED << input, cfg, np, mol, view, created, prof, nrot, g, px >>
    /\ UNCHANGED renderVars

\* ---------------------------------------------------------------- Render
\* bounds, img, ntilx, ntily, wg, in, out
RenderBegin ==
    /\ pc = "render"
    /\ img' = NewRGBA(Rect(0, 0, view.width, view.height))
    /\ ntilx' = NTiles(view.width)
    /\ ntily' = NTiles(view.height)
    /\ ti' = 0
    /\ tj' = 0
    /\ inClosed' = FALSE
    /\ out' = <<>>
    /\ outClosed' = FALSE
    /\ wg' = 0
    /\ wk' = [w \in Workers |-> IdleWorker]
    /\ recvd' = <<>>
    /\ sent' = <<>>
    /\ drawn' = <<>>
    /\ snap' = shapes
    /\ pc' = "spawn"
    /\ UNCHANGED callerVars

\* faulty variant: the goroutine is started without wg.Add(1)
SpawnNoAdd ==
    /\ pc = "spawn"
    /\ LET k == Cardinality({w \in Workers : wk[w].pc # "none"}) + 1
       IN /\ wk' = [wk EXCEPT ![k].pc = "recv"]
          /\ pc' = IF k < np THEN "spawn"
                   ELSE IF ntilx > 0 /\ ntily > 0 THEN "dispatch" ELSE "closeIn"
    /\ UNCHANGED << img, ntilx, ntily, ti, tj, inClosed, out, outClosed, wg,
                    recvd, sent, drawn, snap >>
    /\ UNCHANGED callerVars

\* for i := 0; i < np; i++ { wg.Add(1); go func() {...}() }
Spawn ==
    /\ pc = "spawn"
    /\ LET k == Cardinality({w \in Workers : wk[w].pc # "none"}) + 1
       IN /\ wk' = [wk EXCEPT ![k].pc = "recv"]
          /\ pc' = IF k < np THEN "spawn"
                   ELSE IF ntilx > 0 /\ ntily > 0 THEN "dispatch" ELSE "closeIn"
    /\ wg' = wg + 1
    /\ UNCHANGED << img, ntilx, ntily, ti, tj, inClosed, out, outClosed,
                    recvd, sent, drawn, snap >>
    /\ UNCHANGED callerVars

\* in <- image.Rect(x, y, x+tileSize, y+tileSize), received by worker w in
\* its "for t := range in"; the channel is unbuffered, so the send and the
\* receive are one step
Dispatch(w) ==
    /\ pc = "dispatch"
    /\ wk[w].pc = "recv"
    /\ wk' = [wk EXCEPT ![w].pc = "render", ![w].t = TileRect(ti, tj)]
    /\ recvd' = Append(recvd, TileRect(ti, tj))
    /\ tj' = IF tj + 1 < ntily THEN tj + 1 ELSE 0
    /\ ti' = IF tj + 1 < ntily THEN ti ELSE ti + 1
    /\ pc' = IF ti' < ntilx THEN "dispatch" ELSE "closeIn"
    /\ UNCHANGED << img, ntilx, ntily, inClosed, out, outClosed, wg, sent, drawn, snap >>
    /\ UNCHANGED callerVars

\* close(in)
CloseIn ==
    /\ pc = "closeIn"
    /\ inClosed' = TRUE
    /\ pc' = "wait"
    /\ UNCHANGED << img, ntilx, ntily, ti, tj, out, outClosed, wg, wk,
                    recvd, sent, drawn, snap >>
    /\ UNCHANGED callerVars

\* wg.Wait()
Wait ==
    /\ pc = "wait"
    /\ WaitDone
    /\ pc' = "closeOut"
    /\ UNCHANGED renderVars
    /\ UNCHANGED callerVars

\* close(out)
CloseOut ==
    /\ pc = "closeOut"
    /\ outClosed' = TRUE
    /\ pc' = "drain"
    /\ UNCHANGED << img, ntilx, ntily, ti, tj, inClosed, out, wg, wk,
                    recvd, sent, drawn, snap >>
    /\ UNCHANGED callerVars

\* faulty variant: the sub-image sent last is drawn first
DrainOneNewest ==
    /\ pc = "drain"
    /\ out # <<>>
    /\ img' = Draw(img, out[Len(out)].Rect, out[Len(out)])
    /\ out' = SubSeq(out, 1, Len(out) - 1)
    /\ drawn' = Append(drawn, out[Len(out)].Rect)
    /\ UNCHANGED << pc, ntilx, ntily, ti, tj, inClosed, outClosed, wg, wk,
                    recvd, sent, snap >>
    /\ UNCHANGED callerVars

\* for m := range out { draw.Draw(img, m.Bounds(), m, m.Bounds().Min, draw.Src) }
DrainOne ==
    /\ pc = "drain"
    /\ out # <<>>
    /\ img' = Draw(img, Head(out).Rect, Head(out))
    /\ out' = Tail(out)
    /\ drawn' = Append(drawn, Head(out).Rect)
    /\ UNCHANGED << pc, ntilx, ntily, ti, tj, inClosed, outClosed, wg, wk,
                    recvd, sent, snap >>
    /\ UNCHANGED callerVars

\* the range loop ends: out is closed and empty
DrainEnd ==
    /\ pc = "drain"
    /\ out = <<>>
    /\ outClosed
    /\ pc' = "banner"
    /\ UNCHANGED renderVars
    /\ UNCHANGED callerVars

\* if sc.banner { DrawBanner(img) }; return img
Banner ==
    /\ pc = "banner"
    /\ img' = [img EXCEPT !.banner = cfg.banner]
    /\ pc' = IF cfg.p THEN "encode" ELSE "append"
    /\ UNCHANGED << ntilx, ntily, ti, tj, inClosed, out, outClosed, wg, wk,
                    recvd, sent, drawn, snap >>
    /\ UNCHANGED callerVars

\* worker w: sc.RenderTile(t)
WorkerRender(w) ==
    /\ wk[w].pc = "render"
    /\ wk' = [wk EXCEPT ![w].pc = "send", ![w].m = RenderTile(shapes, wk[w].t)]
    /\ UNCHANGED << pc, img, ntilx, ntily, ti, tj, inClosed, out, outClosed, wg,
                    recvd, sent, drawn, snap >>
    /\ UNCHANGED callerVars

\* worker w: out <- (the sub-image); a send on a closed channel panics
WorkerSend(w) ==
    /\ wk[w].pc = "send"
    /\ \/ /\ outClosed
          /\ wk' = [wk EXCEPT ![w].pc = "panic"]
          /\ UNCHANGED << out, sent >>
       \/ /\ ~outClosed
          /\ Len(out) < OutCap
          /\ out' = Append(out, wk[w].m)
          /\ sent' = Append(sent, wk[w].m.Rect)
          /\ wk' = [wk EXCEPT ![w].pc = "recv", ![w].t = ZR, ![w].m = NoImage]
    /\ UNCHANGED << pc, img, ntilx, ntily, ti, tj, inClosed, outClosed, wg,
                    recvd, drawn, snap >>
    /\ UNCHANGED callerVars

\* worker w: the range over in ends on the closed channel; defer wg.Done()
WorkerExit(w) ==
    /\ wk[w].pc = "recv"
    /\ inClosed
    /\ wk' = [wk EXCEPT ![w].pc = "done"]
    /\ wg' = wg - 1
    /\ UNCHANGED << pc, img, ntilx, ntily, ti, tj, inClosed, out, outClosed,
                    recvd, sent, drawn, snap >>
    /\ UNCHANGED callerVars

WorkerStep(w) == WorkerRender(w) \/ WorkerSend(w) \/ WorkerExit(w)

RenderMain ==
    \/ RenderBegin
    \/ Spawn
    \/ \E w \in Workers : Dispatch(w)
    \/ CloseIn
    \/ Wait
    \/ CloseOut
    \/ DrainOne
    \/ DrainEnd
    \/ Banner

\* ------------------------------------------------------- specifications
Next ==
    \/ CheckFlags
    \/ LoadMolecule
    \/ CreateOutput
    \/ SetupScene
    \/ LoopTest
    \/ RenderMain
    \/ \E w \in Workers : WorkerStep(w)
    \/ AppendFrame
    \/ RotateMol
    \/ RebuildGeometry
    \/ Encode

Spec == Init /\ [][Next]_vars

NextRender ==
    \/ RenderMain
    \/ \E w \in Workers : WorkerStep(w)
    \/ Encode

SpecRender == InitRender /\ [][NextRender]_vars

\* the pixel the loops of Scene.RenderTile(b) set after pixel p, b being
\* the whole image; NoPixel after the last
NextPixelOf(p, v) ==
    IF v.width < 1 \/ v.height < 1 THEN NoPixel
    ELSE IF p = NoPixel THEN [NoPixel EXCEPT !.x = 0, !.y = 0]
    ELSE IF p.y + 1 < v.height THEN [NoPixel EXCEPT !.x = p.x, !.y = p.y + 1]
    ELSE IF p.x + 1 < v.width THEN [NoPixel EXCEPT !.x = p.x + 1, !.y = 0]
    ELSE NoPixel

\* Scene.RenderTile: img.Set(x, y, sc.ComputePixel(x, y)) for the next pixel
SetPixel ==
    /\ pc = "tile"
    /\ NextPixelOf(px, view) # NoPixel
    /\ px' = LET n == NextPixelOf(px, view)
             IN [n EXCEPT !.colour = Pixel(shapes, n.x, n.y)]
    /\ UNCHANGED << pc, input, cfg, np, mol, shapes, view, created, prof, nrot, fi, g >>
    /\ UNCHANGED renderVars

NextPixel == SetPixel

SpecPixel == InitPixel /\ [][NextPixel]_vars

\* -------------------------------------------------- src/molgif.go: RenderAll
\* src/molgif.go, Scene.UpdateGeometry: the cylinders keep their end points
\* a and b; bonds are drawn for a bond size above 0.01
RECURSIVE MolgifBondShapes(_, _, _)
MolgifBondShapes(atoms, bonds, bondSize) ==
    IF bonds = <<>> THEN <<>>
    ELSE LET pa == atoms[Head(bonds)[1]]
             pb == atoms[Head(bonds)[2]]
             mid == VecScale(VecAdd(pa.pos, pb.pos), FHalf)
         IN << [kind |-> "cylinder", a |-> pa.pos, b |-> mid, radius |-> bondSize,
                material |-> Elements[pa.name]],
               [kind |-> "cylinder", a |-> pb.pos, b |-> mid, radius |-> bondSize,
                material |-> Elements[pb.name]] >>
            \o MolgifBondShapes(atoms, Tail(bonds), bondSize)

MolgifUpdateGeometry(m, atomSize, bondSize) ==
    [k \in 1 .. Len(m.atoms) |->
        [kind |-> "sphere", pos |-> m.atoms[k].pos, radius |-> atomSize,
         material |-> Elements[m.atoms[k].name]]]
    \o (IF FGt(bondSize, F(1, 100)) THEN MolgifBondShapes(m.atoms, m.bonds, bondSize) ELSE <<>>)

\* src/molgif.go, Molecule.Rotate(angle): r := MatRotY(angle)
MolgifRotate(atoms, angle) == Rotate(atoms, MatRotY(angle))

\* src/molgif.go, RenderAll: ang := 2.0 * math.Pi / float32(nframes)
MolgifAngle == FDiv(TwoPi, FromInt(nframes))

\* src/molgif.go, main at the call of RenderAll: the molecule loaded, one of
\* -x -y -z set at least, the output file created, the scene made by
\* NewScene (no shape yet)
InitMolgif ==
    /\ pc = "loop"
    /\ input = Water
    /\ cfg \in { [f EXCEPT !.p = FALSE, !.rot = RotFlags(r)] :
                    f \in GoodFlags, r \in (SUBSET {"x", "y", "z"}) \ {{}} }
    /\ np = 1
    /\ mol = [err |-> "", atoms |-> MoveToOrigin(input), bonds |-> MakeBondsAll(input)]
    /\ shapes = <<>>
    /\ view = SceneView(mol.atoms, cfg.w, cfg.h)
    /\ created = TRUE
    /\ prof = FALSE
    /\ InitLocals

\* src/molgif.go, RenderAll: one turn of the loop, sc.mol.Rotate(ang),
\* sc.UpdateGeometry(), img := sc.Render() (with the banner), the two
\* appends
MolgifFrame ==
    /\ pc = "loop"
    /\ fi < nframes
    /\ mol' = [mol EXCEPT !.atoms = MolgifRotate(@, MolgifAngle)]
    /\ nrot' = nrot + 1
    /\ shapes' = MolgifUpdateGeometry(mol', cfg.atomSize, cfg.bondSize)
    /\ img' = [RenderTile(shapes', Rect(0, 0, view.width, view.height)) EXCEPT !.banner = TRUE]
    /\ g' = [Image |-> Append(g.Image, MakePaletted(img')),
             Delay |-> Append(g.Delay, 100 \div FPS)]
    /\ fi' = fi + 1
    /\ UNCHANGED << pc, input, cfg, np, view, created, prof, px >>
    /\ UNCHANGED << ntilx, ntily, ti, tj, inClosed, out, outClosed, wg, wk,
                    recvd, sent, drawn, snap >>

\* src/molgif.go, RenderAll: return &g
MolgifReturn ==
    /\ pc = "loop"
    /\ fi = nframes
    /\ pc' = "encode"
    /\ UNCHANGED callerVars
    /\ UNCHANGED renderVars

NextMolgif == MolgifFrame \/ MolgifReturn \/ Encode

SpecMolgif == InitMolgif /\ [][NextMolgif]_vars

NextBonds ==
    \/ LoadMolecule
    \/ CreateOutput
    \/ SetupScene

SpecBonds == InitBonds /\ [][NextBonds]_vars

SpecRotFlags == InitRotFlags /\ [][NextBonds]_vars

FairWorker(w) == w \in Workers /\ WorkerStep(w)

\* the Go scheduler runs every goroutine that can take a step
SpecRenderFair ==
    /\ InitRender
    /\ [][NextRender]_vars
    /\ WF_vars(RenderMain \/ Encode)
    /\ \A w \in 1 .. MaxNP : WF_vars(FairWorker(w))

Range(f) == { f[k] : k \in DOMAIN f }

RECURSIVE SumSeq(_)
SumSeq(q) == IF q = <<>> THEN 0 ELSE Head(q) + SumSeq(Tail(q))

\* number of pixels of a rectangle
Area(r) == IF Empty(r) THEN 0 ELSE Dx(r) * Dy(r)

NoDuplicates(f) == \A a, b \in DOMAIN f : a # b => f[a] # f[b]

CeilDiv(a, b) == IF a % b = 0 THEN a \div b ELSE (a \div b) + 1

WorkersFinished == \A w \in Workers : wk[w].pc = "done"

\* a Render call has composited its frame (the banner may or may not be on it)
FrameAssembled == pc \in {"banner", "encode", "append"} /\ img # NoImage

\* ------------------------------------------------------------------ claims

\* C1: when Render has assembled the frame buffer, every pixel (x, y) of
\* [0,W) x [0,H) holds ComputePixel(x, y) of the scene the call was entered
\* with, for every size, worker count and interleaving: the frame equals
\* the single-threaded rendering.
C1_PixelIdentical ==
    FrameAssembled =>
        /\ snap = shapes
        /\ \A x \in 0 .. cfg.w - 1, y \in 0 .. cfg.h - 1 :
              At(img, x, y) = Pixel(snap, x, y)

\* C1 witness: a frame of several tiles assembled by several workers whose
\* sub-images arrived in another order than the tiles were dispatched
C1_Witness ==
    /\ pc = "banner"
    /\ np >= 2
    /\ Len(drawn) >= 3
    /\ drawn # recvd
    /\ cfg.w % tileSize # 0
    /\ At(img, cfg.w - 1, cfg.h - 1) = Pixel(shapes, cfg.w - 1, cfg.h - 1)

\* C2: within a Render call the pixels of the frame buffer change only
\* after every tile has been rendered and sent and every worker has
\* finished; the steps of the workers leave the frame buffer alone.
C2_BarrierBeforeComposite ==
    [][ /\ (img'.Pix # img.Pix /\ pc # "render") =>
              /\ WorkersFinished
              /\ Len(sent) = ntilx * ntily
              /\ pc = "drain"
        /\ (\E w \in Workers : WorkerStep(w)) => img' = img ]_vars

\* C2 witness: the first sub-image has been composited, after all workers
\* of a multi-worker, multi-tile Render finished
C2_Witness ==
    /\ pc = "drain"
    /\ Len(drawn) = 1
    /\ np >= 2
    /\ ntilx * ntily >= 2
    /\ WorkersFinished

InRender == pc \in {"spawn", "dispatch", "closeIn", "wait", "closeOut", "drain", "banner"}

\* C3: during RenderAll the molecule and the shape list change only while
\* no worker goroutine is running and no Render call is in progress, and
\* when Render returns every worker it started has terminated.
C3_SceneStableWhileWorkersRun ==
    [][ /\ (mol' # mol \/ shapes' # shapes) =>
              /\ \A w \in Workers : wk[w].pc \in {"none", "done"}
              /\ ~InRender
        /\ (pc = "banner" /\ pc' # "banner") => WorkersFinished
        /\ (InRender /\ \E w \in Workers : wk[w].pc \notin {"none", "done"}) =>
              /\ mol' = mol
              /\ shapes' = shapes ]_vars

\* C3 witness: the molecule has been rotated after a frame of two tiles
\* rendered by two workers, all of them terminated
C3_Witness ==
    /\ pc = "update"
    /\ fi >= 1
    /\ np >= 2
    /\ Len(recvd) >= 2
    /\ WorkersFinished
    /\ nrot = fi + 1

\* the tile rectangles of a frame of size w x h, by the ceiling formula
GridTiles(w, h) ==
    { Rect(i * 64, j * 64, i * 64 + 64, j * 64 + 64) :
        i \in 0 .. CeilDiv(w, 64) - 1, j \in 0 .. CeilDiv(h, 64) - 1 }

\* C4: no tile is received twice or rendered twice; the tiles received and
\* the sub-images sent are tiles of the ceil(W/64) x ceil(H/64) grid, a
\* sub-image only of a received tile; once Render waits for the workers all
\* tiles of the grid have been received, and once the workers finished each
\* has yielded its sub-image.
C4_EachTileOnce ==
    /\ NoDuplicates(recvd)
    /\ NoDuplicates(sent)
    /\ Range(sent) \subseteq Range(recvd)
    /\ InRender => Range(recvd) \subseteq GridTiles(cfg.w, cfg.h)
    /\ pc \in {"closeIn", "wait", "closeOut", "drain", "banner"} =>
          /\ Range(recvd) = GridTiles(cfg.w, cfg.h)
          /\ Len(recvd) = CeilDiv(cfg.w, 64) * CeilDiv(cfg.h, 64)
    /\ pc \in {"closeOut", "drain", "banner"} =>
          /\ Range(sent) = GridTiles(cfg.w, cfg.h)
          /\ Len(sent) = CeilDiv(cfg.w, 64) * CeilDiv(cfg.h, 64)
          /\ Len(out) + Len(drawn) = Len(sent)

\* C4 witness: four tiles went to two workers, both of which rendered some
C4_Witness ==
    /\ pc = "closeOut"
    /\ np = 2
    /\ Len(sent) = 4
    /\ Len(out) = 4
    /\ sent # recvd

\* C5: under fair scheduling Render terminates: no worker is ever blocked
\* on a full (or closed) result queue, and the run reaches the end with
\* every worker exited and the result queue drained.
C5_RenderTerminates ==
    /\ [](\A w \in Workers : wk[w].pc = "send" => (Len(out) < OutCap /\ ~outClosed))
    /\ [](\A w \in Workers : wk[w].pc # "panic")
    /\ <>(pc = "done" /\ WorkersFinished /\ out = <<>> /\ Len(drawn) = ntilx * ntily)

\* C5 witness: a Render of more tiles than workers has ended
C5_Witness ==
    /\ pc = "done"
    /\ WorkersFinished
    /\ out = <<>>
    /\ Len(drawn) > np
    /\ np >= 2

RECURSIVE Composite(_, _, _)
\* the frame obtained by drawing the sub-images of the tiles rs in order
Composite(m, rs, sh) ==
    IF rs = <<>> THEN m
    ELSE Composite(Draw(m, Head(rs), RenderTile(sh, Head(rs))), Tail(rs), sh)

\* C6: the tiles dispatched are pairwise disjoint; when the dispatch loop
\* has ended every pixel of [0,W) x [0,H) lies in one of them (the tiles
\* being disjoint, that is: the parts of the tiles inside the frame have
\* W * H pixels in all); and the assembled frame equals the one obtained
\* by compositing in dispatch order.
C6_TilesPartition ==
    /\ \A a, b \in DOMAIN recvd : a # b => Empty(Intersect(recvd[a], recvd[b]))
    /\ pc \in {"closeIn", "wait", "closeOut", "drain", "banner"} =>
          SumSeq([k \in DOMAIN recvd |-> Area(Intersect(recvd[k], Rect(0, 0, cfg.w, cfg.h)))])
              = cfg.w * cfg.h
    /\ pc = "banner" =>
          img.Pix = Composite(NewRGBA(Rect(0, 0, cfg.w, cfg.h)), recvd, snap).Pix

\* C6 witness: a frame of four tiles whose sub-images were composited in
\* another order than they were dispatched
C6_Witness ==
    /\ pc = "banner"
    /\ Len(recvd) = 4
    /\ Len(drawn) = 4
    /\ drawn[1] # recvd[1]
    /\ ntilx = 2

\* C7 (as claimed): every tile handed to a worker lies inside the image
C7_TilesClipped ==
    \A w \in Workers :
        wk[w].pc \in {"render", "send"} =>
            /\ wk[w].t.Max.X <= cfg.w
            /\ wk[w].t.Max.Y <= cfg.h

\* the molecule as NewMolecule returned it
LoadedMol == NewMolecule(input)

\* the shape list a frame of the animation was rendered from
FrameShapes(k) == g.Image[k].Pix[<< 0, 0 >>][1]

\* the atoms whose spheres open the shape list shps
AtomsOf(shps) ==
    [k \in 1 .. Len(LoadedMol.atoms) |-> Atom(LoadedMol.atoms[k].name, shps[k].pos)]

\* the shape list after one more rotation step
GeometryAfterStep(shps) ==
    UpdateGeometry([LoadedMol EXCEPT !.atoms = Rotate(AtomsOf(shps), RotMat(nframes, rotvec))],
                   cfg.atomSize, cfg.bondSize)

\* C8: in RenderAll frame i (0-based) shows the geometry of the molecule
\* after exactly i rotation steps: frame 0 the molecule as loaded, and
\* every later frame the geometry of the frame before it, rotated one step
\* more; a frame is rendered only when all earlier frames are in the list,
\* and the molecule is rotated for the (i+1)-th time only after frame i has
\* been appended.  (A frame is compared when it has been appended; the
\* list changes at no other step and keeps the frames it has.)
C8_FrameAfterIRotations ==
    /\ [](pc = "rotate" =>
            /\ \A sq \in DOMAIN g.Image[Len(g.Image)].Pix :
                   g.Image[Len(g.Image)].Pix[sq] = << FrameShapes(Len(g.Image)) >>
            /\ nrot = Len(g.Image) - 1
            /\ IF Len(g.Image) = 1
                  THEN FrameShapes(1) = UpdateGeometry(LoadedMol, cfg.atomSize, cfg.bondSize)
                  ELSE FrameShapes(Len(g.Image)) = GeometryAfterStep(FrameShapes(Len(g.Image) - 1)))
    /\ [][ /\ (g' # g /\ pc # "scene") =>
                 /\ pc = "append"
                 /\ Len(g.Image) = fi
                 /\ nrot = fi
                 /\ SubSeq(g'.Image, 1, Len(g.Image)) = g.Image
                 /\ Len(g'.Image) = fi + 1
                 /\ g'.Image[fi + 1].Pix = img.Pix
           /\ (mol'.atoms # mol.atoms /\ pc # "load") =>
                 /\ Len(g.Image) = fi + 1
                 /\ nrot = fi
                 /\ nrot' = fi + 1
                 /\ mol'.atoms = Rotate(mol.atoms, RotMat(nframes, rotvec))
           /\ (pc = "render" /\ pc' # "render" /\ ~cfg.p) =>
                 /\ Len(g.Image) = fi
                 /\ nrot = fi
                 /\ shapes = UpdateGeometry(mol, cfg.atomSize, cfg.bondSize) ]_vars

\* C8 witness: the third frame, of a molecule with bonds, is in the list
\* and shows the molecule after two rotation steps
C8_Witness ==
    /\ pc = "rotate"
    /\ Len(g.Image) = 3
    /\ mol.bonds # <<>>
    /\ FGt(cfg.bondSize, BondSizeEps)
    /\ nrot = 2
    /\ \E sq \in DOMAIN g.Image[3].Pix :
          /\ g.Image[3].Pix[sq] = << shapes >>
          /\ g.Image[1].Pix[sq] # g.Image[3].Pix[sq]

\* C9: the animation RenderAll returns for loop time t has exactly t * 50
\* images and t * 50 delays, each delay 2 (so the delays sum to t * 100).
C9_FrameCount ==
    (pc \in {"encode", "done"} /\ ~cfg.p) =>
        /\ Len(g.Image) = cfg.t * 50
        /\ Len(g.Delay) = cfg.t * 50
        /\ \A k \in DOMAIN g.Delay : g.Delay[k] = 2
        /\ SumSeq(g.Delay) = cfg.t * 100

\* C9 witness: RenderAll has returned the 50 frames of a 1-second loop
C9_Witness ==
    /\ pc = "encode"
    /\ ~cfg.p
    /\ cfg.t = 1
    /\ Len(g.Image) = 50
    /\ Len(g.Delay) = 50

HasBond(bonds, a, b) == \E k \in DOMAIN bonds : bonds[k] = << a, b >>

\* C10: MakeBonds is symmetric: whenever the bond list of the loaded
\* molecule links atom a to atom b it also links b to a (for the scan of
\* src/molgif.go as well).
C10_BondsSymmetric ==
    /\ (pc # "load" /\ mol.err = "") =>
          \A a, b \in DOMAIN mol.atoms :
              HasBond(mol.bonds, a, b) => HasBond(mol.bonds, b, a)
    /\ (\A k \in DOMAIN input : input[k].name \in DOMAIN Elements) =>
          \A a, b \in DOMAIN input :
              HasBond(MakeBondsAll(input), a, b) => HasBond(MakeBondsAll(input), b, a)

\* C10 witness: a loaded molecule of three atoms with a bond between two
\* different atoms, in both directions, and a pair without a bond
C10_Witness ==
    /\ pc = "scene"
    /\ Len(mol.atoms) = 3
    /\ HasBond(mol.bonds, 1, 2)
    /\ HasBond(mol.bonds, 2, 1)
    /\ ~HasBond(mol.bonds, 1, 3)

\* the half-cylinders of a shape list
Cylinders(shps) == SelectSeq(shps, LAMBDA s : s.kind = "cylinder")

\* the squared distance MakeBonds computes for atoms a and b of the input
DistSq(a, b) == LenSq(VecSub(input[a].pos, input[b].pos))

BothHydrogen(a, b) == input[a].name = "H" /\ input[b].name = "H"

Loaded == pc \notin {"flags", "load", "fatal"}

\* C11 (as claimed): a molecule of two atoms has exactly one bond, drawn as
\* two half-cylinders, when the atoms are closer than 1.6, and no bond
\* (no half-cylinder) otherwise.
C11_TwoAtomsOneBond ==
    (pc = "render" /\ Len(mol.atoms) = 2 /\ FGt(cfg.bondSize, BondSizeEps)) =>
        IF FLt(DistSq(1, 2), threshSq)
            THEN Len(mol.bonds) = 1 /\ Len(Cylinders(shapes)) = 2
            ELSE Len(mol.bonds) = 0 /\ Len(Cylinders(shapes)) = 0

\* C12 (as claimed): two different atoms are bonded if and only if their
\* squared distance is below 1.6 squared.
C12_BondIffClose ==
    Loaded =>
        \A a, b \in DOMAIN input :
            a # b => (HasBond(mol.bonds, a, b) <=> FLt(DistSq(a, b), threshSq))

\* C12 (amended): two different atoms are bonded if and only if their squared
\* distance is below 1.6 squared and they are not both hydrogen; with the
\* scan of src/molgif.go, if and only if their squared distance is below
\* 1.6 squared.
C12_BondIffCloseNotBothH ==
    /\ Loaded =>
          \A a, b \in DOMAIN input :
              a # b => (HasBond(mol.bonds, a, b) <=>
                            (FLt(DistSq(a, b), threshSq) /\ ~BothHydrogen(a, b)))
    /\ Loaded =>
          \A a, b \in DOMAIN input :
              a # b => (HasBond(MakeBondsAll(input), a, b) <=> FLt(DistSq(a, b), threshSq))

\* C12 witness: a carbon bonded to a hydrogen 0.7 away and not bonded to an
\* atom exactly 1.6 away
C12_Witness ==
    /\ pc = "create"
    /\ Len(input) = 3
    /\ input[1].name = "C"
    /\ input[2].name = "H"
    /\ HasBond(mol.bonds, 1, 2)
    /\ input[1].pos.x = FZero
    /\ input[3].pos.x = F(16, 10)
    /\ ~HasBond(mol.bonds, 1, 3)
    /\ ~HasBond(mol.bonds, 3, 1)

\* C13: no bond of the loaded molecule has two hydrogen ends, whatever the
\* distance of the two; every pair of different atoms that are not both
\* hydrogen and are closer than the threshold has its bond.
C13_NoHydrogenHydrogenBond ==
    Loaded =>
        /\ \A k \in DOMAIN mol.bonds :
              ~(mol.atoms[mol.bonds[k][1]].name = "H" /\ mol.atoms[mol.bonds[k][2]].name = "H")
        /\ \A a, b \in DOMAIN input :
              (a # b /\ ~BothHydrogen(a, b) /\ FLt(DistSq(a, b), threshSq))
                  => HasBond(mol.bonds, a, b)

\* C13 witness: two hydrogens 0.7 apart without a bond, one of them bonded
\* to a carbon
C13_Witness ==
    /\ pc = "create"
    /\ Len(input) = 3
    /\ BothHydrogen(1, 2)
    /\ input[1].pos # input[2].pos
    /\ FLt(DistSq(1, 2), threshSq)
    /\ ~HasBond(mol.bonds, 1, 2)
    /\ input[3].name = "C"
    /\ HasBond(mol.bonds, 3, 1)
    /\ HasBond(mol.bonds, 1, 3)

\* the rounding error allowed for a coordinate
CoordTol == F(1, 100000)

VecNear(a, b, tol) == FNear(a.x, b.x, tol) /\ FNear(a.y, b.y, tol) /\ FNear(a.z, b.z, tol)

\* C14 (as claimed): after MoveToOrigin the mean of the atom positions is
\* (0,0,0), and a second MoveToOrigin leaves every position as it is.
C14_CentredExactly ==
    Loaded =>
        /\ Centroid(mol.atoms) = VecZero
        /\ MoveToOrigin(mol.atoms) = mol.atoms

\* C14 (amended): MoveToOrigin subtracts the mean it computes from every
\* atom; after it the mean of the atom positions is (0,0,0) up to the
\* rounding error of the float32 sums, and a second MoveToOrigin changes no
\* coordinate by more than that.
C14_CentredWithinRounding ==
    Loaded =>
        /\ \A k \in DOMAIN input :
              mol.atoms[k].pos = VecSub(input[k].pos, Centroid(input))
        /\ VecNear(Centroid(mol.atoms), VecZero, CoordTol)
        /\ \A k \in DOMAIN input :
              VecNear(MoveToOrigin(mol.atoms)[k].pos, mol.atoms[k].pos, CoordTol)

\* C14 witness: three atoms off the origin whose computed mean is not exact:
\* the mean after centring is not zero and a second centring moves an atom
C14_Witness ==
    /\ pc = "create"
    /\ Len(input) = 3
    /\ Centroid(input) # VecZero
    /\ Centroid(mol.atoms) # VecZero
    /\ MoveToOrigin(mol.atoms) # mol.atoms

\* the pairs of atoms a bond list links
BondedPairs(bonds) == { bonds[k] : k \in DOMAIN bonds }

\* the rounding error allowed for a squared distance
DistTol == F(1, 10000)

\* C15 (as claimed): bonding the centred atoms gives the same bonded pairs
\* as bonding the atoms as read (which is what NewMolecule does).
C15_OrderIrrelevant ==
    Loaded => BondedPairs(MakeBonds(mol.atoms)) = BondedPairs(mol.bonds)

\* C15 (amended): the two orders agree on every pair of atoms whose squared
\* distance is not within rounding error of 1.6 squared.
C15_OrderIrrelevantOffThreshold ==
    Loaded =>
        \A a, b \in DOMAIN input :
            ~FNear(DistSq(a, b), threshSq, DistTol) =>
                (HasBond(MakeBonds(mol.atoms), a, b) <=> HasBond(mol.bonds, a, b))

\* C15 witness: three atoms, one pair bonded and one pair not, whose
\* centring is not exact (the squared distance of some pair has changed)
C15_Witness ==
    /\ pc = "create"
    /\ Len(input) = 3
    /\ HasBond(mol.bonds, 1, 2)
    /\ ~HasBond(mol.bonds, 1, 3)
    /\ ~FNear(DistSq(1, 3), threshSq, DistTol)
    /\ \E a, b \in DOMAIN input :
          DistSq(a, b) # LenSq(VecSub(mol.atoms[a].pos, mol.atoms[b].pos))

\* C16: once the molecule is loaded, no step (Rotate and UpdateGeometry
\* among them) changes the bond list, the number of atoms or the element of
\* an atom: they stay what NewMolecule made them.
C16_RotateMovesAtomsOnly ==
    /\ [](Loaded =>
            /\ mol.bonds = LoadedMol.bonds
            /\ Len(mol.atoms) = Len(LoadedMol.atoms)
            /\ \A k \in DOMAIN mol.atoms : mol.atoms[k].name = LoadedMol.atoms[k].name)
    /\ [][ Loaded =>
            /\ mol'.bonds = mol.bonds
            /\ Len(mol'.atoms) = Len(mol.atoms)
            /\ \A k \in DOMAIN mol.atoms : mol'.atoms[k].name = mol.atoms[k].name ]_vars

\* C16 witness: after two rotations and geometry updates the atoms have
\* moved and the bonds are those of the loaded molecule
C16_Witness ==
    /\ pc = "loop"
    /\ nrot = 2
    /\ fi = 2
    /\ mol.atoms # LoadedMol.atoms
    /\ mol.bonds = LoadedMol.bonds
    /\ mol.bonds # <<>>

\* a run of RenderAll that rotates forward about Y only has ended
YOnlyDone == pc = "encode" /\ ~cfg.p /\ rotvec = << 0, 1, 0 >>

\* C17 (as claimed): after the nframes rotation steps about Y every atom
\* is where it was after loading.
C17_FullRevolutionExact == YOnlyDone => mol.atoms = LoadedMol.atoms

\* C17 (amended): after the nframes rotation steps about Y every atom is
\* where it was after loading up to the accumulated rounding error.
C17_FullRevolutionWithinRounding ==
    YOnlyDone =>
        /\ nrot = nframes
        /\ \A k \in DOMAIN mol.atoms :
              VecNear(mol.atoms[k].pos, LoadedMol.atoms[k].pos, CoordTol)

\* C17 witness: RenderAll has ended after 50 steps about Y; an atom off
\* the axis is near its first position and not on it
C17_Witness ==
    /\ YOnlyDone
    /\ nrot = 50
    /\ \E k \in DOMAIN mol.atoms :
          /\ LoadedMol.atoms[k].pos.x # FZero
          /\ mol.atoms[k].pos # LoadedMol.atoms[k].pos
          /\ VecNear(mol.atoms[k].pos, LoadedMol.atoms[k].pos, CoordTol)

\* some flag value is out of range
BadFlags ==
    \/ cfg.w < 1
    \/ cfg.h < 1
    \/ cfg.t < 1
    \/ cfg.bgr > 255
    \/ cfg.bgg > 255
    \/ cfg.bgb > 255
    \/ cfg.atomSize.m < 0
    \/ cfg.bondSize.m < 0

\* C20: with a flag value out of range main ends in log.Fatal having
\* loaded no molecule, created no output file, built no view and no shape
\* and rendered nothing.
C20_ConfigErrorsFatalFirst ==
    BadFlags =>
        /\ pc \in {"flags", "fatal"}
        /\ mol = NoMol
        /\ ~created
        /\ view = NoView
        /\ shapes = <<>>
        /\ img = NoImage
        /\ g.Image = <<>>
        /\ \A w \in Workers : wk[w].pc = "none"

\* C20 witness: main has ended on a negative bond size, the last of the
\* checks, every other flag being in range
C20_Witness ==
    /\ pc = "fatal"
    /\ cfg.bondSize.m < 0
    /\ cfg.w >= 1 /\ cfg.h >= 1 /\ cfg.t >= 1
    /\ cfg.bgr <= 255 /\ cfg.bgg <= 255 /\ cfg.bgb <= 255
    /\ cfg.atomSize.m >= 0
    /\ cfg.inp
    /\ mol = NoMol
    /\ ~created

\* the ray of the pixel set last
PxRay == NewRay(view, px.x, px.y)

\* the colour a pixel term stands for in the scene of main
Colour(t) ==
    IF t.zero THEN RGBA(0, 0, 0, 0)
    ELSE ComputePixel(Scene(t.shapes, view, cfg), t.x, t.y)

PixelSet == pc = "tile" /\ px # NoPixel

\* sphere s lies behind the origin of ray: the origin is outside s and the
\* direction points away from its centre
Behind(s, ray) ==
    LET l == VecSub(s.pos, ray.orig)
    IN /\ s.kind = "sphere"
       /\ FGt(LenSq(l), FMul(s.radius, s.radius))
       /\ FLt(VecDot(ray.dir, l), FZero)

\* C18 (as claimed): for a sphere behind the origin of the ray
\* Sphere.Intersect returns the distance MaxFloat32; it returns no negative
\* distance for any sphere; the colour ComputePixel returns is the colour
\* it returns on the shapes that are not behind the origin.
C18_NoHitBehind ==
    PixelSet =>
        /\ \A k \in DOMAIN shapes :
              Behind(shapes[k], PxRay) => SphereIntersect(shapes[k], PxRay) = NoHit
        /\ \A k \in DOMAIN shapes :
              shapes[k].kind = "sphere" => ~FLt(SphereIntersect(shapes[k], PxRay).t, FZero)
        /\ Colour(px.colour) = PixelLoop(SelectSeq(shapes, LAMBDA s : ~Behind(s, PxRay)),
                                 PxRay, 1, Scene(shapes, view, cfg).bg, MaxFloat32, TRUE)

\* C19 (as claimed): a shape FastIntersect rejects has the distance
\* MaxFloat32 from Intersect, and the colour ComputePixel returns is the
\* colour of the same loop without the FastIntersect test.
C19_PretestNoEffect ==
    PixelSet =>
        /\ \A k \in DOMAIN shapes :
              ~FastIntersect(shapes[k], PxRay) => ShapeIntersect(shapes[k], PxRay).t = MaxFloat32
        /\ Colour(px.colour) = PixelLoop(shapes, PxRay, 1, Scene(shapes, view, cfg).bg, MaxFloat32, FALSE)

\* the input file has no atom record or one with an unknown element
BadInput ==
    \/ input = <<>>
    \/ \E k \in DOMAIN input : input[k].name \notin DOMAIN Elements

\* C21: for an input file without atom records or with an unknown element
\* NewMolecule returns an error and no molecule, and main ends in log.Fatal
\* without the output file, a view, a shape or a frame.
C21_InputErrorsFatal ==
    BadInput =>
        /\ pc \in {"flags", "load", "fatal"}
        /\ mol.atoms = <<>>
        /\ mol.bonds = <<>>
        /\ (pc = "fatal" /\ ~BadFlags /\ cfg.inp) => mol.err # ""
        /\ ~created
        /\ view = NoView
        /\ shapes = <<>>
        /\ img = NoImage
        /\ g.Image = <<>>
        /\ \A w \in Workers : wk[w].pc = "none"

\* C21 witness: main has ended on the unknown element of the second record,
\* the first record and every flag being good
C21_Witness ==
    /\ pc = "fatal"
    /\ ~BadFlags
    /\ cfg.inp
    /\ Len(input) = 2
    /\ input[1].name \in DOMAIN Elements
    /\ input[2].name \notin DOMAIN Elements
    /\ mol.err = "unknown element"
    /\ ~created

\* C22: the rotation vector main passes to RenderAll has components -1, 0
\* or 1, not all 0, whatever rotation flags are given; without a flag it
\* is (0, 1, 0); the divisor of the step angle is not zero and the step
\* angle is a finite number.
C22_RotvecNotZero ==
    /\ [](pc = "loop" =>
            /\ \A i \in 1 .. 3 : rotvec[i] \in {-1, 0, 1}
            /\ \E i \in 1 .. 3 : rotvec[i] # 0
            /\ FSqrt(FromInt(Abs(rotvec[1]) + Abs(rotvec[2]) + Abs(rotvec[3]))) # FZero
            /\ ~IsNaN(StepAngle(nframes, rotvec))
            /\ ~IsInf(StepAngle(nframes, rotvec))
            /\ StepAngle(nframes, rotvec) # FZero)
    /\ [][ (pc = "create" /\ NoRotFlag(cfg.rot)) => rotvec' = << 0, 1, 0 >> ]_vars

\* C22 witness: with -x and -X alone RenderAll is entered with (-1, 0, 0)
C22_Witness ==
    /\ pc = "loop"
    /\ cfg.rot = RotFlags({"x", "X"})
    /\ rotvec = << -1, 0, 0 >>

\* what RotateMol would do to an atom at v by rotating about the axes one
\* after the other: first about a, then about b, then about c (1 = X,
\* 2 = Y, 3 = Z)
AxisRot(i, v) ==
    LET ang == FMul(StepAngle(nframes, rotvec), FromInt(rotvec[i]))
    IN MatVec(IF i = 1 THEN MatRotX(ang) ELSE IF i = 2 THEN MatRotY(ang) ELSE MatRotZ(ang), v)

InTurn(a, b, c, v) == AxisRot(c, AxisRot(b, AxisRot(a, v)))

\* C23 (as claimed): a step of RenderAll moves every atom to where the
\* rotation about X, then about Y, then about Z takes it.
C23_XThenYThenZ ==
    [][ pc = "rotate" =>
          \A k \in DOMAIN mol.atoms :
              VecNear(mol'.atoms[k].pos, InTurn(1, 2, 3, mol.atoms[k].pos), CoordTol) ]_vars

\* C23 (amended): a step of RenderAll moves every atom to where the
\* rotation about Z, then about Y, then about X takes it: rot is the
\* product Rx Ry Rz.
C23_ZThenYThenX ==
    [][ pc = "rotate" =>
          \A k \in DOMAIN mol.atoms :
              VecNear(mol'.atoms[k].pos, InTurn(3, 2, 1, mol.atoms[k].pos), CoordTol) ]_vars

\* C23 witness: a step of a run with -x -Z is due, and for some atom the
\* two orders of the rotations end in different places
C23_Witness ==
    /\ pc = "rotate"
    /\ rotvec = << 1, 0, -1 >>
    /\ nrot = 1
    /\ \E k \in DOMAIN mol.atoms :
          ~VecNear(InTurn(1, 2, 3, mol.atoms[k].pos), InTurn(3, 2, 1, mol.atoms[k].pos),
                   CoordTol)

\* sequence p is the beginning of sequence q
IsPrefix(p, q) == Len(p) <= Len(q) /\ SubSeq(q, 1, Len(p)) = p

\* C24 (as claimed): the sub-images are drawn in the order in which their
\* tiles were dispatched.
C24_DrawnInTileOrder == IsPrefix(drawn, recvd)

\* C24 (amended): the sub-images are drawn in the order in which the
\* workers sent them on channel out.
C24_DrawnInSendOrder ==
    /\ IsPrefix(drawn, sent)
    /\ FrameAssembled => drawn = sent

\* C24 witness: a frame of four tiles is assembled; the tile dispatched
\* second was sent and drawn first
C24_Witness ==
    /\ FrameAssembled
    /\ Len(drawn) = 4
    /\ drawn[1] = recvd[2]
    /\ sent[1] = recvd[2]

\* shape c is the half of a bond from the atom p to the point mid, drawn
\* with bond size r in the colour of p
IsHalfBond(c, p, mid, r) ==
    /\ c.kind = "cylinder"
    /\ c.radius = r
    /\ c.material = Elements[p.name]
    /\ c.pos = VecScale(VecAdd(p.pos, mid), FHalf)
    /\ c.halfz = FDiv(VecLen(VecSub(mid, p.pos)), FromInt(2))
    /\ (mid # p.pos) => FGt(VecDot(c.axis, VecSub(mid, p.pos)), FZero)

\* shps is the geometry of molecule m: the spheres of the atoms, then, for
\* a bond size above the threshold, the two halves of every bond
IsGeometryOf(shps, m, atomSize, bondSize) ==
    LET n == Len(m.atoms)
        nb == IF FGt(bondSize, F(1, 1000)) THEN Len(m.bonds) ELSE 0
    IN /\ Len(shps) = n + 2 * nb
       /\ \A k \in 1 .. n :
             /\ shps[k].kind = "sphere"
             /\ shps[k].pos = m.atoms[k].pos
             /\ shps[k].radius = atomSize
             /\ shps[k].material = Elements[m.atoms[k].name]
       /\ \A j \in 1 .. nb :
             LET A == m.atoms[m.bonds[j][1]]
                 B == m.atoms[m.bonds[j][2]]
                 mid == VecScale(VecAdd(A.pos, B.pos), FHalf)
             IN /\ IsHalfBond(shps[n + 2 * j - 1], A, mid, bondSize)
                /\ IsHalfBond(shps[n + 2 * j], B, mid, bondSize)

\* C25: whenever UpdateGeometry has run (in main before the first Render,
\* in RenderAll after every Rotate) the shape list is one sphere per atom
\* at the atom's position in its element colour, followed, only for a bond
\* size above 0.001, by two half-cylinders per bond, from A to the midpoint
\* in A's colour and from B to the midpoint in B's colour, and nothing
\* else.
C25_ShapeListRebuilt ==
    [][ shapes' # shapes => IsGeometryOf(shapes', mol', cfg'.atomSize, cfg'.bondSize) ]_vars

\* C25 witness: the shape list was rebuilt after a rotation, with bonds
C25_Witness ==
    /\ pc = "loop"
    /\ nrot = 2
    /\ fi = 2
    /\ Len(mol.bonds) > 0
    /\ Len(shapes) = Len(mol.atoms) + 2 * Len(mol.bonds)
    /\ shapes[Len(shapes)].kind = "cylinder"
    /\ shapes # UpdateGeometry(LoadedMol, cfg.atomSize, cfg.bondSize)

\* the distance Intersect reports for shape k of the scene along the ray
\* of the pixel set last
Distance(k) == ShapeIntersect(shapes[k], PxRay).t

\* the shapes that report a distance below the no-hit distance
Hits == { k \in DOMAIN shapes : FLt(Distance(k), MaxFloat32) }

\* the first shape of the list among those with the least distance
Nearest ==
    CHOOSE k \in Hits :
        /\ \A j \in Hits : ~FLt(Distance(j), Distance(k))
        /\ \A j \in Hits : j < k => FLt(Distance(k), Distance(j))

\* C26: ComputePixel returns the background colour when no shape of the
\* scene reports a distance below MaxFloat32, and otherwise the shaded
\* colour of the shape with the least distance, the first of the list among
\* equals.
C26_NearestShapeShaded ==
    PixelSet =>
        IF Hits = {}
            THEN Colour(px.colour) = Scene(shapes, view, cfg).bg
            ELSE \E n \in {Nearest} : \E h \in {ShapeIntersect(shapes[n], PxRay)} :
                     Colour(px.colour) = Shade(shapes[n], h.p, h.n)

\* every entry of matrix m is a finite number
MatFinite(m) == \A f \in DOMAIN m : ~IsNaN(m[f]) /\ ~IsInf(m[f])

\* the half-cylinders of the scene whose axis is the z axis, in either
\* direction
AlongZ ==
    { k \in DOMAIN shapes :
        /\ shapes[k].kind = "cylinder"
        /\ shapes[k].axis \in {UnitZ, Vec(FZero, FZero, FNeg(FOne))} }

\* C27: for a half-cylinder whose axis is the z axis in either direction
\* (the cross product of MatAlignRot is zero) MatAlignRot returns a matrix
\* of finite entries that takes the one vector to the other, and
\* Cylinder.Intersect returns a distance that is a number.
C27_AlignRotSpecialCased ==
    PixelSet =>
        \A k \in AlongZ :
            /\ MatFinite(MatAlignRot(shapes[k].axis, UnitZ))
            /\ VecNear(MatVec(MatAlignRot(shapes[k].axis, UnitZ), shapes[k].axis), UnitZ, CoordTol)
            /\ MatFinite(MatAlignRot(UnitZ, shapes[k].axis))
            /\ ~IsNaN(CylinderIntersect(shapes[k], PxRay).t)

\* C28: when Render is called the shape list is the geometry of the atom
\* positions of that moment, and neither changes before Render returns;
\* Render is called only when UpdateGeometry has run since the last Rotate
\* (as many times in the loop as Rotate), and Rotate leaves the shape list
\* as it is.
C28_GeometryCurrentAtRender ==
    /\ [](pc = "render" =>
            /\ shapes # <<>>
            /\ shapes = UpdateGeometry(mol, cfg.atomSize, cfg.bondSize)
            /\ nrot = fi)
    /\ [](InRender => snap = shapes)
    /\ [][ /\ InRender => shapes' = shapes /\ mol' = mol
           /\ mol'.atoms # mol.atoms /\ pc # "load" => shapes' = shapes /\ pc' = "update"
           /\ pc = "update" => shapes' = UpdateGeometry(mol, cfg.atomSize, cfg.bondSize)
                               /\ mol' = mol /\ pc' = "loop" ]_vars

\* C28 witness: Render is called for the second frame, on shapes other than
\* those of the first frame
C28_Witness ==
    /\ pc = "render"
    /\ ~cfg.p
    /\ nrot = 1
    /\ Len(g.Image) = 1
    /\ shapes # FrameShapes(1)
    /\ shapes = UpdateGeometry(mol, cfg.atomSize, cfg.bondSize)

\* no two atoms of the input file are at the same position
DistinctPositions ==
    \A a, b \in DOMAIN input : a # b => input[a].pos # input[b].pos

\* C29: for a molecule whose atoms are at pairwise distinct positions no
\* bond links an atom to itself, and every half-cylinder of the shape list
\* has a length above zero and an axis of three numbers.
C29_NoSelfBond ==
    (Loaded /\ DistinctPositions) =>
        /\ \A k \in DOMAIN mol.bonds : mol.bonds[k][1] # mol.bonds[k][2]
        /\ \A k \in DOMAIN shapes :
              shapes[k].kind = "cylinder" =>
                  /\ FGt(shapes[k].halfz, FZero)
                  /\ ~IsNaN(shapes[k].axis.x)
                  /\ ~IsNaN(shapes[k].axis.y)
                  /\ ~IsNaN(shapes[k].axis.z)

\* the rotation by the step angle of src/molgif.go about axis i (1 = X,
\* 2 = Y, 3 = Z) if the flag of the axis is set, no rotation otherwise
RequestedRot(i, v) ==
    IF i = 1 /\ cfg.rot.x THEN MatVec(MatRotX(MolgifAngle), v)
    ELSE IF i = 2 /\ cfg.rot.y THEN MatVec(MatRotY(MolgifAngle), v)
    ELSE IF i = 3 /\ cfg.rot.z THEN MatVec(MatRotZ(MolgifAngle), v)
    ELSE v

\* the orders in which three axes can take their turn
AxisOrders == { o \in [1 .. 3 -> 1 .. 3] : \A i, j \in 1 .. 3 : i # j => o[i] # o[j] }

\* C30: in src/molgif.go every step of RenderAll takes every atom to where
\* the rotations about the axes whose flags are set take it (in some
\* order of the axes), an axis whose flag is not set adding no rotation.
C30_RotatesRequestedAxes ==
    [][ mol'.atoms # mol.atoms =>
          \E o \in AxisOrders :
              \A k \in DOMAIN mol.atoms :
                  VecNear(mol'.atoms[k].pos,
                          RequestedRot(o[3], RequestedRot(o[2], RequestedRot(o[1], mol.atoms[k].pos))),
                          CoordTol) ]_vars

====
